---------------------------- MODULE Spec2Model ----------------------------
(***************************************************************************)
(* A model of dbpf-recompress: the DBPF package reader (getPackage), the   *)
(* writer (putPackage), the validator (validatePackage), the per-file loop *)
(* of main, the entry transforms (compressEntry, decompressEntry,          *)
(* recompressEntry) and the QFS/RefPack codec they call.                   *)
(*                                                                         *)
(* Files and buffers are sequences of bytes (0..255).  A C++ `uint` is a   *)
(* pair <<hi, lo>> of 16-bit halves, so that 32-bit wrap-around is exact.  *)
(***************************************************************************)
EXTENDS Integers, Sequences, FiniteSets, TLC

VARIABLES
    \* ---- main(): one package file and the tool run over it
    default_mode,   \* main: RECOMPRESS, or DECOMPRESS with -d
    mode,           \* main: the mode of this file (may become SKIP)
    file,           \* the bytes of the package file on disk
    tempFile,       \* the bytes of fileName + ".new"; NoFile when absent
    package,        \* dbpf::Package being transformed
    oldPackage,     \* main: the copy taken right after getPackage
    newPackage,     \* main: getPackage(tempFile)
    is_valid,       \* main: result of validatePackage
    pc,             \* main's position
    pass,           \* how many times the tool has been run over the file
    file0,          \* ghost: the file as it was when this run began
    outcome,        \* ghost: how main left the file
    \* ---- putPackage's parallel loop
    wpc,            \* per entry: position of its loop iteration
    content,        \* per entry: the iteration's local `content`
    r_lock,         \* omp lock owner (0 = free)
    w_lock,         \* omp lock owner (0 = free)
    failed,         \* ghost: entries whose qfs_decompress call failed
    oob,            \* ghost: a buffer was indexed outside its bounds
    \* ---- the codec applied to one payload
    cx,             \* payload given to compressEntry
    cy,             \* result of compressEntry
    cz,             \* result of decompressEntry on cy
    cpc,
    \* ---- src/dbpf.h: a package packed into a buffer in memory and back
    given,          \* ghost: the Package as it was handed to putPackage
    memPackage,     \* the Package object (putPackage takes it by reference)
    memBuffer,      \* the bytes putPackage returned
    memResult,      \* the Package getPackage returned
    mpc,            \* position of the round trip
    moob            \* ghost: a buffer was indexed outside its bounds

vars == <<default_mode, mode, file, tempFile, package, oldPackage, newPackage,
          is_valid, pc, pass, file0, outcome, wpc, content, r_lock, w_lock,
          failed, oob, cx, cy, cz, cpc,
          given, memPackage, memBuffer, memResult, mpc, moob>>

mainVars == <<default_mode, mode, file, tempFile, package, oldPackage,
              newPackage, is_valid, pc, pass, file0, outcome, wpc, content,
              r_lock, w_lock, failed, oob>>

codecVars == <<cx, cy, cz, cpc>>

packVars == <<given, memPackage, memBuffer, memResult, mpc, moob>>

(***************************************************************************)
(* Bounds of the model.                                                    *)
(***************************************************************************)
MaxLen == 22        \* longest generated codec payload (besides LongRun)
LongRun == 70       \* one long run, to reach the 4-byte opcode
NThreads == 2       \* omp threads running loop iterations at once
MaxPass == 2        \* runs of the tool over the same file

(***************************************************************************)
(* 32-bit unsigned integers.                                               *)
(***************************************************************************)
Half == 65536

U(n) == <<n \div Half, n % Half>>

Val(u) == u[1] * Half + u[2]

Add32(a, b) ==
    LET lo == a[2] + b[2]
        hi == a[1] + b[1] + (lo \div Half)
    IN  <<hi % Half, lo % Half>>

\* a * k for a small k, modulo 2^32
Mul32(a, k) ==
    LET lo == a[2] * k
        hi == a[1] * k + (lo \div Half)
    IN  <<hi % Half, lo % Half>>

Gt32(a, b) == a[1] > b[1] \/ (a[1] = b[1] /\ a[2] > b[2])

\* 0-based indexing into a byte buffer
At(buf, i) == buf[i + 1]

Slice(buf, from, n) == SubSeq(buf, from + 1, from + n)

Zeros(n) == [i \in 1..n |-> 0]

ByteAtLE(u, k) ==
    CASE k = 0 -> u[2] % 256
      [] k = 1 -> u[2] \div 256
      [] k = 2 -> u[1] % 256
      [] k = 3 -> u[1] \div 256

\* a byte read outside the buffer is undefined behaviour: it yields g
AtOr(buf, i, g) == IF i < Len(buf) THEN buf[i + 1] ELSE g

\* uint getInt(bytes& buf, uint& pos): the value; the caller advances pos by 4.
\* The four buf[pos++] are operands of | and are taken in the order written,
\* the order under which the value is the little-endian one the source names.
getInt(buf, pos, g) ==
    << AtOr(buf, pos + 3, g) * 256 + AtOr(buf, pos + 2, g),
       AtOr(buf, pos + 1, g) * 256 + AtOr(buf, pos, g) >>

\* void putInt(bytes& buf, uint& pos, uint n): the four bytes written
putInt(n) == << ByteAtLE(n, 0), ByteAtLE(n, 1), ByteAtLE(n, 2), ByteAtLE(n, 3) >>

getUncompressedSize_littleEndian(buf, g) ==
    AtOr(buf, 8, g) * 65536 + AtOr(buf, 7, g) * 256 + AtOr(buf, 6, g)

\* uint getUncompressedSize(bytes& buf): 3 bytes, big endian, at 6..8
getUncompressedSize(buf, g) ==
    AtOr(buf, 6, g) * 65536 + AtOr(buf, 7, g) * 256 + AtOr(buf, 8, g)

DBPF_MAGIC == <<18000, 16964>>     \* 0x46504244 "DBPF"
SIGNATURE == <<13639, 21058>>      \* 0x35475242 "BRG5"
CLST_TYPE == <<59499, 7919>>       \* 0xE86B1EEF
CLST_INSTANCE == <<10347, 7939>>   \* 0x286B1F03

(***************************************************************************)
(* The QFS/RefPack codec (qfs.h).  The opcode layouts are those of         *)
(* how-to-compress.md.                                                     *)
(***************************************************************************)

\* [n |-> opcode bytes, plain, count, offset, eof] of the opcode starting b0
OpShort(b0, b1) ==
    [n |-> 2, plain |-> b0 % 4, count |-> ((b0 \div 4) % 8) + 3,
     offset |-> ((b0 \div 32) % 4) * 256 + b1 + 1, eof |-> FALSE]

OpMedium(b0, b1, b2) ==
    [n |-> 3, plain |-> b1 \div 64, count |-> (b0 % 64) + 4,
     offset |-> (b1 % 64) * 256 + b2 + 1, eof |-> FALSE]

OpLong(b0, b1, b2, b3) ==
    [n |-> 4, plain |-> b0 % 4, count |-> ((b0 \div 4) % 4) * 256 + b3 + 5,
     offset |-> ((b0 \div 16) % 2) * 65536 + b1 * 256 + b2 + 1, eof |-> FALSE]

OpLiteral(b0) ==
    [n |-> 1, plain |-> (b0 % 32) * 4 + 4, count |-> 0, offset |-> 0, eof |-> FALSE]

OpEof(b0) ==
    [n |-> 1, plain |-> b0 % 4, count |-> 0, offset |-> 0, eof |-> TRUE]

OpLen(b0) ==
    IF b0 < 128 THEN 2 ELSE IF b0 < 192 THEN 3 ELSE IF b0 < 224 THEN 4 ELSE 1

\* the opcode at src[ip..]; the caller has checked ip + OpLen <= Len(src)
OpAt(src, ip) ==
    LET b0 == At(src, ip)
    IN  IF b0 < 128 THEN OpShort(b0, At(src, ip + 1))
        ELSE IF b0 < 192 THEN OpMedium(b0, At(src, ip + 1), At(src, ip + 2))
        ELSE IF b0 < 224 THEN OpLong(b0, At(src, ip + 1), At(src, ip + 2), At(src, ip + 3))
        ELSE IF b0 < 252 THEN OpLiteral(b0)
        ELSE OpEof(b0)

\* copy count bytes from offset back, one byte at a time
RECURSIVE CopyBack(_, _, _)
CopyBack(out, offset, count) ==
    IF count = 0 THEN out
    ELSE CopyBack(Append(out, out[Len(out) - offset + 1]), offset, count - 1)

DecFail == [success |-> FALSE, out |-> <<>>]

RECURSIVE DecodeFrom(_, _, _, _)
\* one opcode at ip, then on from the byte after its literals
DecodeFrom(src, ip, out, outLen) ==
    LET copied(op, lit, out2) ==
            IF op.eof
            THEN IF Len(out2) = outLen THEN [success |-> TRUE, out |-> out2]
                 ELSE DecFail
            ELSE DecodeFrom(src, lit + op.plain, out2, outLen)
        apply(op, lit) ==
            IF lit + op.plain > Len(src) THEN DecFail
            ELSE IF Len(out) + op.plain + op.count > outLen THEN DecFail
            ELSE IF op.count > 0 /\ op.offset > Len(out) + op.plain THEN DecFail
            ELSE copied(op, lit, CopyBack(out \o Slice(src, lit, op.plain),
                                          op.offset, op.count))
        decode(op) == apply(op, ip + op.n)
    IN  IF ip >= Len(src) \/ ip + OpLen(At(src, ip)) > Len(src) THEN DecFail
        ELSE decode(OpAt(src, ip))

\* bool qfs_decompress(src, srcLen, out, outLen): the opcodes start at byte 9
qfs_decompress(src, outLen) ==
    IF Len(src) < 9 THEN DecFail ELSE DecodeFrom(src, 9, <<>>, outLen)

\* ---- the encoder

EncShort(plain, count, offset) ==
    << (((offset - 1) \div 256) % 4) * 32 + (count - 3) * 4 + plain,
       (offset - 1) % 256 >>

EncMedium(plain, count, offset) ==
    << 128 + (count - 4), plain * 64 + ((offset - 1) \div 256), (offset - 1) % 256 >>

EncLong(plain, count, offset) ==
    << 192 + (((offset - 1) \div 65536) % 2) * 16 + ((count - 5) \div 256) * 4 + plain,
       ((offset - 1) \div 256) % 256, (offset - 1) % 256, (count - 5) % 256 >>

EncLiteral(plain) == << 224 + ((plain - 4) \div 4) >>

EncEof(plain) == << 252 + plain >>

\* the smallest opcode family that can carry (count, offset)
EncMatch(plain, count, offset) ==
    IF count <= 10 /\ offset <= 1024 THEN EncShort(plain, count, offset)
    ELSE IF count <= 67 /\ offset <= 16384 THEN EncMedium(plain, count, offset)
    ELSE EncLong(plain, count, offset)

\* smallest count each family carries, by offset; 0 when no family reaches it
MinMatch(offset) ==
    IF offset <= 1024 THEN 3
    ELSE IF offset <= 16384 THEN 4
    ELSE IF offset <= 131072 THEN 5
    ELSE 0

RECURSIVE MatchLen(_, _, _, _)
\* how many bytes at i repeat those at j (j < i); overlapping is allowed
MatchLen(src, i, j, acc) ==
    IF i + acc < Len(src) /\ acc < 1028 /\ At(src, i + acc) = At(src, j + acc)
    THEN MatchLen(src, i, j, acc + 1)
    ELSE acc

\* the longest usable match at i, nearest first: [count, offset]; count 0 if none
BestMatch(src, i) ==
    LET cand == { j \in 0..(i - 1) :
                    LET m == MatchLen(src, i, j, 0)
                    IN  MinMatch(i - j) > 0 /\ m >= MinMatch(i - j) }
    IN  IF cand = {} THEN [count |-> 0, offset |-> 0]
        ELSE LET best == CHOOSE j \in cand :
                           \A k \in cand :
                              \/ MatchLen(src, i, j, 0) > MatchLen(src, i, k, 0)
                              \/ (MatchLen(src, i, j, 0) = MatchLen(src, i, k, 0) /\ j >= k)
             IN  [count |-> MatchLen(src, i, best, 0), offset |-> i - best]

RECURSIVE LiteralBlocks(_, _, _)
\* literal opcodes for src[from .. from+n) while at least 4 bytes are pending
LiteralBlocks(src, from, n) ==
    IF n < 4 THEN <<>>
    ELSE LET k == IF n >= 112 THEN 112 ELSE n - (n % 4)
         IN  EncLiteral(k) \o Slice(src, from, k) \o LiteralBlocks(src, from + k, n - k)

RECURSIVE EncodeFrom(_, _, _, _)
\* ip: next byte to encode; lit: first byte not yet emitted; out: opcodes so far
EncodeFrom(src, ip, lit, out) ==
    IF ip >= Len(src)
    THEN LET n == Len(src) - lit
         IN  out \o LiteralBlocks(src, lit, n) \o EncEof(n % 4)
                 \o Slice(src, Len(src) - (n % 4), n % 4)
    ELSE LET n == ip - lit
             emit(m) ==
                 IF m.count = 0 THEN EncodeFrom(src, ip + 1, lit, out)
                 ELSE EncodeFrom(src, ip + m.count, ip + m.count,
                        out \o LiteralBlocks(src, lit, n)
                            \o EncMatch(n % 4, m.count, m.offset)
                            \o Slice(src, ip - (n % 4), n % 4))
         IN  emit(BestMatch(src, ip))

\* int qfs_compress(src, srcLen, out, outLen): 0 when out does not fit
qfs_compress(src, outLen) ==
    LET frame(body, total) ==
            IF total > outLen THEN [length |-> 0, out |-> <<>>]
            ELSE [length |-> total,
                  out |-> putInt(U(total)) \o <<16, 251>>
                          \o << (Len(src) \div 65536) % 256, (Len(src) \div 256) % 256,
                                Len(src) % 256 >>
                          \o body]
        framed(body) == frame(body, 9 + Len(body))
    IN  framed(EncodeFrom(src, 0, 0, <<>>))


(***************************************************************************)
(* Entry transforms (dbpf.h).  Each returns the entry as left by the call  *)
(* and the returned bytes.  crash: the call threw (std::length_error from  *)
(* bytes(content.size() - 1) with an empty content: size_t wraps to        *)
(* SIZE_MAX); inside the omp loop nothing catches it and the process ends. *)
(* failed / oob are ghost results: qfs_decompress returned false; a byte   *)
(* outside the buffer was read (g is what that read yielded).              *)
(***************************************************************************)
Entry(type, group, instance, resource, location, size) ==
    [type |-> type, group |-> group, instance |-> instance, resource |-> resource,
     location |-> location, size |-> size, uncompressedSize |-> U(0),
     compressed |-> FALSE, repeated |-> FALSE]

Tgir(e) == <<e.type, e.group, e.instance, e.resource>>

compressEntry(entry, cont) ==
    IF ~entry.compressed /\ ~entry.repeated
    THEN IF Len(cont) = 0
         THEN [entry |-> entry, content |-> cont, crash |-> TRUE]
         ELSE LET done(r) ==
                      IF r.length > 0
                      THEN [entry |-> [entry EXCEPT !.compressed = TRUE],
                            content |-> r.out, crash |-> FALSE]
                      ELSE [entry |-> entry, content |-> cont, crash |-> FALSE]
              IN  done(qfs_compress(cont, Len(cont) - 1))
    ELSE [entry |-> entry, content |-> cont, crash |-> FALSE]

\* a stream that does not decode is passed on as if it had been decoded
decompressEntry_clearFlagOnFailure(entry, cont, g) ==
    IF entry.compressed
    THEN LET done(r) ==
                 [entry |-> [entry EXCEPT !.compressed = FALSE],
                  content |-> IF r.success THEN r.out ELSE cont,
                  failed |-> ~r.success, oob |-> Len(cont) < 9]
         IN  done(qfs_decompress(cont, getUncompressedSize(cont, g)))
    ELSE [entry |-> entry, content |-> cont, failed |-> FALSE, oob |-> FALSE]

\* success without calling the decoder: a zeroed buffer is returned
decompressEntry_noDecode(entry, cont, g) ==
    IF entry.compressed
    THEN [entry |-> [entry EXCEPT !.compressed = FALSE],
          content |-> Zeros(Len(cont)),
          failed |-> FALSE, oob |-> Len(cont) < 9]
    ELSE [entry |-> entry, content |-> cont, failed |-> FALSE, oob |-> FALSE]

decompressEntry(entry, cont, g) ==
    IF entry.compressed
    THEN LET done(r) ==
                 IF r.success
                 THEN [entry |-> [entry EXCEPT !.compressed = FALSE], content |-> r.out,
                       failed |-> FALSE, oob |-> Len(cont) < 9]
                 ELSE [entry |-> entry, content |-> cont,
                       failed |-> TRUE, oob |-> Len(cont) < 9]
         IN  done(qfs_decompress(cont, getUncompressedSize(cont, g)))
    ELSE [entry |-> entry, content |-> cont, failed |-> FALSE, oob |-> FALSE]

\* the flag is left as compressEntry set it when the original bytes are kept
recompressEntry_flagNotRestored(entry, cont, g) ==
    LET choose(d, c) ==
            [entry |-> c.entry,
             content |-> IF Len(c.content) < Len(cont) THEN c.content ELSE cont,
             crash |-> c.crash, failed |-> d.failed, oob |-> d.oob]
        recompress(d) == choose(d, compressEntry(d.entry, d.content))
    IN  recompress(decompressEntry(entry, cont, g))

recompressEntry(entry, cont, g) ==
    LET wasCompressed == entry.compressed
        choose(d, c) ==
            IF c.crash
            THEN [entry |-> c.entry, content |-> c.content, crash |-> TRUE,
                  failed |-> d.failed, oob |-> d.oob]
            ELSE IF Len(c.content) < Len(cont)
            THEN [entry |-> c.entry, content |-> c.content, crash |-> FALSE,
                  failed |-> d.failed, oob |-> d.oob]
            ELSE [entry |-> [c.entry EXCEPT !.compressed = wasCompressed],
                  content |-> cont, crash |-> FALSE, failed |-> d.failed, oob |-> d.oob]
        recompress(d) == choose(d, compressEntry(d.entry, d.content))
    IN  recompress(decompressEntry(entry, cont, g))

(***************************************************************************)
(* The codec applied to one payload: compressEntry on a fresh entry, then  *)
(* decompressEntry on what it returned.                                    *)
(***************************************************************************)
RECURSIVE Rep(_, _)
\* the first n bytes of u repeated
Rep(u, n) == IF n = 0 THEN <<>> ELSE Append(Rep(u, n - 1), u[((n - 1) % Len(u)) + 1])

Units == { <<0>>, <<1, 2>>, <<1, 2, 3>>, <<5, 6, 7, 8, 9>> }
Prefixes == { <<>>, <<77>>, <<90, 91, 92, 93, 94>> }
Suffixes == { <<>>, <<200>>, <<16, 251, 0, 0>> }

CodecInputs ==
    { p \o Rep(u, n) \o s : p \in Prefixes, u \in Units, n \in 0..MaxLen, s \in Suffixes }
    \cup { Rep(u, LongRun) : u \in Units }

NoFile == <<-1>>
NoPackage == [unpacked |-> FALSE]
FreshEntry == Entry(U(1), U(2), U(3), U(0), U(0), U(0))
NoResult == [entry |-> FreshEntry, content |-> <<>>]

IdleMain ==
    /\ default_mode = "IDLE" /\ mode = "IDLE" /\ file = <<>> /\ tempFile = NoFile
    /\ package = NoPackage /\ oldPackage = NoPackage /\ newPackage = NoPackage
    /\ is_valid = FALSE /\ pc = "idle" /\ pass = 0
    /\ file0 = <<>> /\ outcome = "none"
    /\ wpc = <<>> /\ content = <<>> /\ r_lock = 0 /\ w_lock = 0
    /\ failed = {} /\ oob = FALSE

IdleCodec == cx = <<>> /\ cy = NoResult /\ cz = NoResult /\ cpc = "idle"

NoMemPackage == [indexVersion |-> <<0, 0>>, entries |-> <<>>]

IdlePack ==
    /\ given = NoMemPackage /\ memPackage = NoMemPackage /\ memResult = NoMemPackage
    /\ memBuffer = <<>> /\ mpc = "idle" /\ moob = FALSE

InitCodec ==
    /\ IdleMain
    /\ IdlePack
    /\ cx \in CodecInputs
    /\ cy = NoResult /\ cz = NoResult
    /\ cpc = "start"

CodecCompress ==
    /\ cpc = "start"
    /\ \E r \in { compressEntry(FreshEntry, cx) } :
           /\ cy' = [entry |-> r.entry, content |-> r.content]
           /\ cpc' = IF r.crash THEN "crashed" ELSE "compressed"
    /\ UNCHANGED <<cx, cz>>
    /\ UNCHANGED <<mainVars, packVars>>

CodecDecompress ==
    /\ cpc = "compressed"
    /\ \E r \in { decompressEntry(cy.entry, cy.content, 0) } :
           cz' = [entry |-> r.entry, content |-> r.content]
    /\ cpc' = "decompressed"
    /\ UNCHANGED <<cx, cy>>
    /\ UNCHANGED <<mainVars, packVars>>

NextCodec == CodecCompress \/ CodecDecompress

SpecCodec == InitCodec /\ [][NextCodec]_vars

(***************************************************************************)
(* C1: whenever compressEntry returned a compressed payload for x,         *)
(* decompressEntry on that payload succeeds and returns exactly x.         *)
(***************************************************************************)
C1_RoundTrip ==
    (cpc = "decompressed" /\ cy.entry.compressed)
        => (cz.content = cx /\ ~cz.entry.compressed)

C1_Witness ==
    /\ cpc = "decompressed" /\ cy.entry.compressed
    /\ cz.content = cx /\ Len(cx) > LongRun - 1

(***************************************************************************)
(* C2: for every payload x of any length, compressEntry either returns y   *)
(* with |y| < |x|, y[4..6] = 10 FB and the 24-bit big-endian integer at    *)
(* y[6..9] equal to |x|, or reports "not beneficial" and leaves the entry  *)
(* uncompressed with its bytes.                                            *)
(***************************************************************************)
C2_CompressContract ==
    cpc # "start" =>
        /\ cpc # "crashed"
        /\ \/ /\ cy.entry.compressed
              /\ Len(cy.content) < Len(cx)
              /\ Len(cy.content) >= 9
              /\ At(cy.content, 4) = 16 /\ At(cy.content, 5) = 251
              /\ getUncompressedSize(cy.content, 0) = Len(cx)
           \/ /\ ~cy.entry.compressed
              /\ cy.content = cx


(***************************************************************************)
(* The package reader: dbpf::getPackage.                                   *)
(***************************************************************************)

\* Package{false}: every other member value-initialised
Sentinel ==
    [unpacked |-> FALSE, signature_in_package |-> FALSE,
     header |-> [majorVersion |-> U(0), minorVersion |-> U(0),
                 majorUserVersion |-> U(0), minorUserVersion |-> U(0),
                 flags |-> U(0), createdDate |-> U(0), modifiedDate |-> U(0),
                 indexMajorVersion |-> U(0), indexEntryCount |-> U(0),
                 indexLocation |-> U(0), indexSize |-> U(0),
                 holeIndexEntryCount |-> U(0), holeIndexLocation |-> U(0),
                 holeIndexSize |-> U(0), indexMinorVersion |-> U(0),
                 remainder |-> <<>>],
     entries |-> <<>>, holes |-> <<>>, compressedEntries |-> {}]

\* getFileSize: tellg of the end of the stream, as a uint
getFileSize(f) == U(Len(f))

\* bytes readFile(fstream&, uint pos, uint size): `size` zero bytes, then
\* file.read into them.  A read that runs past the end of the file stops
\* there and fails the stream; a failed stream reads nothing.  The buffer is
\* [size, data, fail]: its length, the bytes read (the rest are 0), and the
\* stream's state after the call.
readFile(f, fail, pos, size) ==
    LET avail == IF fail \/ Gt32(pos, U(Len(f))) THEN 0 ELSE Len(f) - Val(pos)
        short == size[1] > 0 \/ size[2] > avail
        n == IF short THEN avail ELSE size[2]
    IN  [size |-> size,
         data |-> IF n = 0 THEN <<>> ELSE Slice(f, Val(pos), n),
         fail |-> fail \/ short]

\* whether index i lies inside the buffer
InBuf(buf, i) == buf.size[1] > 0 \/ i < buf.size[2]

BufAt(buf, i, g) ==
    IF i < Len(buf.data) THEN buf.data[i + 1]
    ELSE IF InBuf(buf, i) THEN 0
    ELSE g

\* getInt on a buffer returned by readFile
BufInt(buf, pos, g) ==
    getInt(<<BufAt(buf, pos, g), BufAt(buf, pos + 1, g),
             BufAt(buf, pos + 2, g), BufAt(buf, pos + 3, g)>>, 0, g)

\* the bytes of a buffer of moderate size
Bytes(buf) ==
    IF buf.size[1] = 0
    THEN buf.data \o Zeros(buf.size[2] - Len(buf.data))
    ELSE buf.data

\* the payload of an entry, as putPackage and validatePackage read it
ReadContent(f, e) == Bytes(readFile(f, FALSE, e.location, e.size))

\* lines 207-229: the header fields of the first 96 bytes
ParseHeader(buffer) ==
    [majorVersion |-> getInt(buffer, 4, 0), minorVersion |-> getInt(buffer, 8, 0),
     majorUserVersion |-> getInt(buffer, 12, 0),
     minorUserVersion |-> getInt(buffer, 16, 0),
     flags |-> getInt(buffer, 20, 0), createdDate |-> getInt(buffer, 24, 0),
     modifiedDate |-> getInt(buffer, 28, 0),
     indexMajorVersion |-> getInt(buffer, 32, 0),
     indexEntryCount |-> getInt(buffer, 36, 0),
     indexLocation |-> getInt(buffer, 40, 0), indexSize |-> getInt(buffer, 44, 0),
     holeIndexEntryCount |-> getInt(buffer, 48, 0),
     holeIndexLocation |-> getInt(buffer, 52, 0),
     holeIndexSize |-> getInt(buffer, 56, 0),
     indexMinorVersion |-> getInt(buffer, 60, 0),
     remainder |-> Slice(buffer, 64, 32)]

\* bytes of one index record: 24 with a resource field, else 20
Stride(header) == IF header.indexMinorVersion = U(2) THEN 24 ELSE 20

\* bytes of one CLST record: 20 with a resource field, else 16
ClstStride(header) == IF header.indexMinorVersion = U(2) THEN 20 ELSE 16

\* lines 249-278: TRUE when a bounds or count check rejects the header
HeaderChecksFail(h, fileSize) ==
    \/ Gt32(h.indexLocation, fileSize)
    \/ Gt32(Add32(h.indexLocation, h.indexSize), fileSize)
    \/ Gt32(Mul32(h.indexEntryCount, Stride(h)), h.indexSize)
    \/ Gt32(h.holeIndexLocation, fileSize)
    \/ Gt32(Add32(h.holeIndexLocation, h.holeIndexSize), fileSize)
    \/ Mul32(h.holeIndexEntryCount, 8) # h.holeIndexSize

VersionUnsupported_lowHalf(h) ==
    \/ h.majorVersion[2] # 1
    \/ h.minorVersion[2] \notin {0, 1, 2}
    \/ h.indexMajorVersion[2] # 7
    \/ h.indexMinorVersion[2] > 2

\* lines 238-246: the versions the tool does not handle
VersionUnsupported(h) ==
    \/ h.majorVersion # U(1)
    \/ (h.minorVersion # U(0) /\ h.minorVersion # U(1) /\ h.minorVersion # U(2))
    \/ h.indexMajorVersion # U(7)
    \/ Gt32(h.indexMinorVersion, U(2))

SignatureFound_anySize(sig, fileSizeInHole, fileSize) == sig = SIGNATURE

\* line 324
SignatureFound(sig, fileSizeInHole, fileSize) ==
    sig = SIGNATURE /\ fileSizeInHole = fileSize

\* how many records of a table the model follows one by one
MaxRecords == 5

Followed(count) == IF count[1] = 0 /\ count[2] <= MaxRecords THEN count[2] ELSE MaxRecords

\* lines 286-290: the holes of the hole index
ReadHoles(buf, n, g) ==
    [i \in 1..n |-> [location |-> BufInt(buf, 8 * (i - 1), g),
                     size |-> BufInt(buf, 8 * (i - 1) + 4, g)]]

\* lines 337-348: the i-th record of the index (1-based)
IndexRecord(buf, header, i, g) ==
    LET at == Stride(header) * (i - 1)
        v2 == header.indexMinorVersion = U(2)
        tail == IF v2 THEN at + 16 ELSE at + 12
    IN  [type |-> BufInt(buf, at, g), group |-> BufInt(buf, at + 4, g),
         instance |-> BufInt(buf, at + 8, g),
         resource |-> IF v2 THEN BufInt(buf, at + 12, g) ELSE U(0),
         location |-> BufInt(buf, tail, g), size |-> BufInt(buf, tail + 4, g)]

\* line 350
RecordOutside(r, fileSize) ==
    Gt32(r.location, fileSize) \/ Gt32(Add32(r.location, r.size), fileSize)

\* unordered_set::insert with equalFunction: an equal TGIR is kept, not replaced
InsertCompressed(set, rec) ==
    IF \E x \in set : Tgir(x) = Tgir(rec) THEN set ELSE set \cup {rec}

RECURSIVE ParseClst(_, _, _, _, _)
\* lines 373-385: while(pos < clstContent.size()) read one record
ParseClst(clst, pos, header, g, set) ==
    IF pos >= Len(clst) THEN set
    ELSE LET v2 == header.indexMinorVersion = U(2)
             rec == [type |-> getInt(clst, pos, g), group |-> getInt(clst, pos + 4, g),
                     instance |-> getInt(clst, pos + 8, g),
                     resource |-> IF v2 THEN getInt(clst, pos + 12, g) ELSE U(0),
                     uncompressedSize |->
                         getInt(clst, IF v2 THEN pos + 16 ELSE pos + 12, g)]
         IN  ParseClst(clst, pos + ClstStride(header), header, g,
                       InsertCompressed(set, rec))

FindCompressed(set, e) == { x \in set : Tgir(x) = Tgir(e) }

\* lines 388-395
MarkCompressed(entries, set) ==
    [i \in 1..Len(entries) |->
        LET hit == FindCompressed(set, entries[i])
        IN  IF hit = {} THEN [entries[i] EXCEPT !.compressed = FALSE]
            ELSE [entries[i] EXCEPT !.compressed = TRUE,
                    !.uncompressedSize = (CHOOSE x \in hit : TRUE).uncompressedSize]]

RECURSIVE MarkRepeated_laterOnly(_, _, _)
\* only the later entry of a repeated TGIR is marked
MarkRepeated_laterOnly(entries, i, map) ==
    IF i > Len(entries) THEN entries
    ELSE IF \E j \in map : Tgir(entries[j]) = Tgir(entries[i])
         THEN MarkRepeated_laterOnly([entries EXCEPT ![i].repeated = TRUE], i + 1, map)
         ELSE MarkRepeated_laterOnly(entries, i + 1, map \cup {i})

RECURSIVE MarkRepeated(_, _, _)
\* lines 403-414: map holds the first index of each TGIR seen so far
MarkRepeated(entries, i, map) ==
    IF i > Len(entries) THEN entries
    ELSE LET seen == { j \in map : Tgir(entries[j]) = Tgir(entries[i]) }
         IN  IF seen # {}
             THEN LET j == CHOOSE j \in seen : TRUE
                  IN  MarkRepeated([entries EXCEPT ![i].repeated = TRUE,
                                                   ![j].repeated = TRUE],
                                   i + 1, map)
             ELSE MarkRepeated(entries, i + 1, map \cup {i})


\* a * k as a mathematical integer: <<bits 32 and up, bits 16..31, bits 0..15>>
WideMul(a, k) ==
    LET lo == a[2] * k
        hi == a[1] * k + (lo \div Half)
    IN  <<hi \div Half, hi % Half, lo % Half>>

\* a + b as a mathematical integer, in the same form
WideAdd(a, b) ==
    LET lo == a[2] + b[2]
        hi == a[1] + b[1] + (lo \div Half)
    IN  <<hi \div Half, hi % Half, lo % Half>>

\* w <= b, for a wide w and a uint b
WideLeq(w, b) == w[1] = 0 /\ ~Gt32(<<w[2], w[3]>>, b)

WideEq(w, b) == w[1] = 0 /\ <<w[2], w[3]>> = b

Rejected == [package |-> Sentinel, oob |-> FALSE, huge |-> FALSE, fail |-> FALSE]

\* lines 330-362, after the index buffer is read: the entries, the content of
\* the directory of compressed files, and whether a record lies outside
ReadIndex(f, ibuf, h, g) ==
    LET \* the stream's state when record i is reached
        failAt(recs, clsts, i) ==
            ibuf.fail \/ \E j \in clsts :
                j < i /\ readFile(f, FALSE, recs[j].location, recs[j].size).fail
        read(recs, clsts, last) ==
            [outside |-> \E i \in DOMAIN recs : RecordOutside(recs[i], getFileSize(f)),
             entries |-> [k \in 1..(Len(recs) - Cardinality(clsts)) |->
                            LET i == CHOOSE i \in DOMAIN recs \ clsts :
                                       Cardinality((1..i) \ clsts) = k
                            IN  Entry(recs[i].type, recs[i].group, recs[i].instance,
                                      recs[i].resource, recs[i].location, recs[i].size)],
             clstContent |-> IF clsts = {} THEN <<>>
                             ELSE Bytes(readFile(f, failAt(recs, clsts, last),
                                                 recs[last].location, recs[last].size)),
             huge |-> \E j \in clsts : recs[j].size[1] > 0,
             fail |-> failAt(recs, clsts, Len(recs) + 1)]
        split(recs, clsts) ==
            read(recs, clsts, IF clsts = {} THEN 0
                              ELSE CHOOSE i \in clsts : \A j \in clsts : j <= i)
        scan(recs) == split(recs, { i \in DOMAIN recs : recs[i].type = CLST_TYPE })
    IN  scan([i \in 1..Followed(h.indexEntryCount) |-> IndexRecord(ibuf, h, i, g)])

\* Package getPackage(fstream& file, string displayPath, Mode mode), with what
\* an out-of-bounds read yields (g).  [package, oob, huge, fail]: oob, a buffer
\* was indexed outside its bounds; huge, a buffer of 64 KiB or more was asked
\* for (bytes(size) may throw std::bad_alloc); fail, the state the stream is
\* left in.
getPackage(f, md, g) ==
    LET fileSize == getFileSize(f)
        \* lines 387-415: the compressed and repeated marks
        withClst(h, holes, signed, ix, set) ==
            LET marked == IF Len(ix.clstContent) > 0 THEN MarkCompressed(ix.entries, set)
                          ELSE ix.entries
            IN  [package |->
                    [unpacked |-> TRUE, signature_in_package |-> signed,
                     header |-> h, holes |-> holes, compressedEntries |-> set,
                     entries |-> IF md = "RECOMPRESS" THEN MarkRepeated(marked, 1, {})
                                 ELSE marked],
                 oob |-> \/ ~WideEq(WideMul(h.holeIndexEntryCount, 8), h.holeIndexSize)
                         \/ ~WideLeq(WideMul(h.indexEntryCount, Stride(h)), h.indexSize)
                         \/ Len(ix.clstContent) % ClstStride(h) # 0,
                 huge |-> h.holeIndexSize[1] > 0 \/ h.indexSize[1] > 0 \/ ix.huge,
                 fail |-> ix.fail]
        \* lines 350-385: a record outside the file; the directory's records
        withIndex(h, holes, signed, ix) ==
            IF ix.outside THEN Rejected
            ELSE withClst(h, holes, signed, ix,
                          IF Len(ix.clstContent) > 0
                          THEN ParseClst(ix.clstContent, 0, h, g, {}) ELSE {})
        \* lines 318-348: the signature, then the index buffer
        withSignature(h, holes, probe, sbuf) ==
            withIndex(h, holes,
                      probe /\ SignatureFound(BufInt(sbuf, 0, g), BufInt(sbuf, 4, g),
                                               fileSize),
                      ReadIndex(f, readFile(f, sbuf.fail, h.indexLocation, h.indexSize),
                                h, g))
        \* lines 309-317: a single hole of 8 bytes is read as a signature
        withHoles(h, hbuf, holes) ==
            LET probe == h.holeIndexEntryCount = U(1) /\ holes[1].size = U(8)
            IN  IF probe /\ RecordOutside(holes[1], fileSize) THEN Rejected
                ELSE withSignature(h, holes, probe,
                        IF probe THEN readFile(f, hbuf.fail, holes[1].location, U(8))
                        ELSE [size |-> U(0), data |-> <<>>, fail |-> hbuf.fail])
        \* lines 281-290
        withHoleIndex(h, hbuf) ==
            withHoles(h, hbuf, ReadHoles(hbuf, Followed(h.holeIndexEntryCount), g))
        \* lines 231-278
        withHeader(buffer, h) ==
            IF getInt(buffer, 0, 0) # DBPF_MAGIC THEN Rejected
            ELSE IF VersionUnsupported(h) THEN Rejected
            ELSE IF HeaderChecksFail(h, fileSize) THEN Rejected
            ELSE withHoleIndex(h, readFile(f, FALSE, h.holeIndexLocation, h.holeIndexSize))
        parse(buffer) == withHeader(buffer, ParseHeader(buffer))
    IN  IF Len(f) < 96 THEN Rejected
        ELSE parse(Bytes(readFile(f, FALSE, U(0), U(96))))


(***************************************************************************)
(* The package writer: dbpf::putPackage.                                   *)
(***************************************************************************)
RECURSIVE Concat(_)
Concat(chunks) == IF chunks = <<>> THEN <<>> ELSE Head(chunks) \o Concat(Tail(chunks))

\* the 32 bytes after indexMinorVersion left as bytes(96) made them
HeaderOut_noRemainder(h) ==
    putInt(DBPF_MAGIC) \o putInt(h.majorVersion) \o putInt(h.minorVersion)
    \o putInt(h.majorUserVersion) \o putInt(h.minorUserVersion) \o putInt(h.flags)
    \o putInt(h.createdDate) \o putInt(h.modifiedDate) \o putInt(h.indexMajorVersion)
    \o Zeros(24) \o putInt(h.indexMinorVersion) \o Zeros(32)

\* lines 423-439: the header as first written, the index and hole fields zero
HeaderOut(h) ==
    putInt(DBPF_MAGIC) \o putInt(h.majorVersion) \o putInt(h.minorVersion)
    \o putInt(h.majorUserVersion) \o putInt(h.minorUserVersion) \o putInt(h.flags)
    \o putInt(h.createdDate) \o putInt(h.modifiedDate) \o putInt(h.indexMajorVersion)
    \o Zeros(24) \o putInt(h.indexMinorVersion) \o h.remainder

ClstRecord_everyEntry(h, e) ==
    putInt(e.type) \o putInt(e.group) \o putInt(e.instance)
    \o (IF h.indexMinorVersion = U(2) THEN putInt(e.resource) ELSE <<>>)
    \o putInt(e.uncompressedSize)

\* lines 493-503: the CLST record of one entry; nothing when not compressed
ClstRecord(h, e) ==
    IF e.compressed
    THEN putInt(e.type) \o putInt(e.group) \o putInt(e.instance)
         \o (IF h.indexMinorVersion = U(2) THEN putInt(e.resource) ELSE <<>>)
         \o putInt(e.uncompressedSize)
    ELSE <<>>

\* lines 526-535
IndexRecordOut(h, e) ==
    putInt(e.type) \o putInt(e.group) \o putInt(e.instance)
    \o (IF h.indexMinorVersion = U(2) THEN putInt(e.resource) ELSE <<>>)
    \o putInt(e.location) \o putInt(e.size)

SignatureTrailer_sizeBeforeHole(indexEnd) ==
    putInt(U(indexEnd + 8)) \o putInt(U(8)) \o putInt(SIGNATURE) \o putInt(U(indexEnd + 8))

\* lines 544-560: hole index (location, size), then the hole (signature, file size)
SignatureTrailer(indexEnd) ==
    putInt(U(indexEnd + 8)) \o putInt(U(8)) \o putInt(SIGNATURE) \o putInt(U(indexEnd + 16))

\* lines 480-578: what putPackage does after the parallel loop.  newFile holds
\* the header and the payloads; the result is the finished file and the
\* package with the CLST entry pushed.
PutTail(newFile, pkg, md) ==
    LET h == pkg.header
        \* lines 563-578: the index and hole fields of the header
        patch(entries, indexStart, indexEnd) ==
            putInt(U(Len(entries))) \o putInt(U(indexStart))
            \o putInt(U(indexEnd - indexStart))
            \o (IF md = "RECOMPRESS"
                THEN putInt(U(1)) \o putInt(U(indexEnd)) \o putInt(U(8))
                ELSE Zeros(12))
        patched(entries, indexStart, indexEnd, f3) ==
            [file |-> Slice(f3, 0, 36) \o patch(entries, indexStart, indexEnd)
                      \o Slice(f3, 60, Len(f3) - 60),
             package |-> [pkg EXCEPT !.entries = entries]]
        \* lines 542-560
        signed(entries, indexStart, f2) ==
            patched(entries, indexStart, Len(f2),
                    IF md = "RECOMPRESS" THEN f2 \o SignatureTrailer(Len(f2)) ELSE f2)
        \* lines 515-539
        indexed(entries, f1) ==
            signed(entries, Len(f1),
                   f1 \o Concat([i \in 1..Len(entries) |-> IndexRecordOut(h, entries[i])]))
        \* lines 505-512: the CLST entry is pushed when the directory is not empty
        listed(clstContent) ==
            indexed(IF Len(clstContent) > 0
                    THEN Append(pkg.entries,
                                Entry(CLST_TYPE, CLST_TYPE, CLST_INSTANCE, U(0),
                                      U(Len(newFile)), U(Len(clstContent))))
                    ELSE pkg.entries,
                    newFile \o clstContent)
    IN  listed(Concat([i \in 1..Len(pkg.entries) |-> ClstRecord(h, pkg.entries[i])]))

(***************************************************************************)
(* validatePackage.                                                        *)
(***************************************************************************)
\* lines 275-327: one turn of the loop over the entries; FALSE is `return false`
EntryValid(oldEntry, newEntry, newPkg, oldFile, newFile, g) ==
    LET oldContent == ReadContent(oldFile, oldEntry)
        newContent == ReadContent(newFile, newEntry)
        compressed_in_header ==
            Len(newContent) >= 9 /\ At(newContent, 4) = 16 /\ At(newContent, 5) = 251
        hit == FindCompressed(newPkg.compressedEntries, newEntry)
        in_clst == hit # {}
        uncompressedSize == U(getUncompressedSize(newContent, g))
        compressedSize == getInt(newContent, 0, g)
    IN  /\ Tgir(oldEntry) = Tgir(newEntry)
        /\ compressed_in_header = in_clst
        /\ newEntry.compressed =>
              /\ uncompressedSize = (CHOOSE x \in hit : TRUE).uncompressedSize
              /\ compressedSize = newEntry.size
              /\ ~Gt32(compressedSize, uncompressedSize)
        /\ decompressEntry(oldEntry, oldContent, g).content
              = decompressEntry(newEntry, newContent, g).content

\* lines 224-264: the signature hole of a recompressed package
SignatureValid(newPkg, newFile, g) ==
    /\ newPkg.header.holeIndexEntryCount = U(1)
    /\ newPkg.header.holeIndexSize = U(8)
    /\ newPkg.holes[1].size = U(8)
    /\ LET holeData == Bytes(readFile(newFile, FALSE, newPkg.holes[1].location, U(8)))
       IN  /\ getInt(holeData, 0, g) = SIGNATURE
           /\ getInt(holeData, 4, g) = getFileSize(newFile)

validatePackage(oldPkg, newPkg, oldFile, newFile, md, g) ==
    /\ newPkg.unpacked
    /\ LET oldHeader == Bytes(readFile(oldFile, FALSE, U(0), U(96)))
           newHeader == Bytes(readFile(newFile, FALSE, U(0), U(96)))
       IN  /\ Slice(oldHeader, 0, 36) = Slice(newHeader, 0, 36)
           /\ Slice(oldHeader, 60, 36) = Slice(newHeader, 60, 36)
    /\ md = "RECOMPRESS" => SignatureValid(newPkg, newFile, g)
    /\ Len(oldPkg.entries) = Len(newPkg.entries)
    /\ \A i \in 1..Len(oldPkg.entries) :
          EntryValid(oldPkg.entries[i], newPkg.entries[i], newPkg, oldFile, newFile, g)


(***************************************************************************)
(* Package files given to the tool.  A file is laid out as the header, the *)
(* payloads, the directory of compressed files, the index, the hole index  *)
(* and the holes.  An entry is [t, p, listed]: its TGIR is made from t, p  *)
(* is its payload, listed says whether the directory names it.             *)
(***************************************************************************)
TypeOf(t) == U(1000 + t)
GroupOf(t) == U(7)
InstanceOf(t) == <<1, t>>
ResourceOf(iv, t) == IF iv = 2 THEN U(9) ELSE U(0)

RECURSIVE LocOf(_, _)
\* where the i-th payload starts
LocOf(es, i) == IF i = 1 THEN 96 ELSE LocOf(es, i - 1) + Len(es[i - 1].p)

KeyBytes(iv, t) ==
    putInt(TypeOf(t)) \o putInt(GroupOf(t)) \o putInt(InstanceOf(t))
    \o (IF iv = 2 THEN putInt(ResourceOf(iv, t)) ELSE <<>>)

Remainder == [i \in 1..32 |-> 100 + i]

HeaderBytes(h) ==
    putInt(h.magic) \o putInt(h.majorVersion) \o putInt(h.minorVersion)
    \o putInt(U(3)) \o putInt(U(4)) \o putInt(U(5)) \o putInt(<<4660, 22136>>)
    \o putInt(<<39612, 57072>>) \o putInt(h.indexMajorVersion)
    \o putInt(h.indexEntryCount) \o putInt(h.indexLocation) \o putInt(h.indexSize)
    \o putInt(h.holeIndexEntryCount) \o putInt(h.holeIndexLocation)
    \o putInt(h.holeIndexSize) \o putInt(h.indexMinorVersion) \o Remainder

GoodVersions(iv) ==
    [magic |-> DBPF_MAGIC, majorVersion |-> U(1), minorVersion |-> U(1),
     indexMajorVersion |-> U(7), indexMinorVersion |-> U(iv)]

\* the hole index and the holes that follow the index, which ends at `at`
HoleBytes(kind, at) ==
    CASE kind = "none" -> <<>>
      [] kind = "signed" ->
            putInt(U(at + 8)) \o putInt(U(8)) \o putInt(SIGNATURE) \o putInt(U(at + 16))
      [] kind = "stale" ->
            putInt(U(at + 8)) \o putInt(U(8)) \o putInt(SIGNATURE) \o putInt(U(at + 17))
      [] kind = "unsigned" ->
            putInt(U(at + 8)) \o putInt(U(8)) \o putInt(U(0)) \o putInt(U(at + 16))
      [] kind = "wide" ->
            putInt(U(at + 8)) \o putInt(U(12)) \o putInt(SIGNATURE) \o putInt(U(at + 20))
            \o Zeros(4)
      [] kind = "two" ->
            putInt(U(at + 16)) \o putInt(U(8)) \o putInt(U(at + 24)) \o putInt(U(8))
            \o putInt(SIGNATURE) \o putInt(U(at + 32)) \o putInt(SIGNATURE)
            \o putInt(U(at + 32))
      [] kind = "outside" ->
            putInt(U(at + 9)) \o putInt(U(8)) \o putInt(SIGNATURE) \o putInt(U(at + 16))

HoleCount(kind) == IF kind = "none" THEN 0 ELSE IF kind = "two" THEN 2 ELSE 1

BuildFile(iv, es, holeKind, versions) ==
    LET n == Len(es)
        listed == { i \in 1..n : es[i].listed }
        assemble(payloads, clst, indexAt, index) ==
            HeaderBytes(
                [magic |-> versions.magic, majorVersion |-> versions.majorVersion,
                 minorVersion |-> versions.minorVersion,
                 indexMajorVersion |-> versions.indexMajorVersion,
                 indexMinorVersion |-> versions.indexMinorVersion,
                 indexEntryCount |-> U(n + (IF listed = {} THEN 0 ELSE 1)),
                 indexLocation |-> U(indexAt), indexSize |-> U(Len(index)),
                 holeIndexEntryCount |-> U(HoleCount(holeKind)),
                 holeIndexLocation |-> IF holeKind = "none" THEN U(0)
                                       ELSE U(indexAt + Len(index)),
                 holeIndexSize |-> U(8 * HoleCount(holeKind))])
            \o payloads \o clst \o index \o HoleBytes(holeKind, indexAt + Len(index))
        indexed(payloads, clst, clstAt) ==
            assemble(payloads, clst, clstAt + Len(clst),
                Concat([i \in 1..n |->
                    KeyBytes(iv, es[i].t) \o putInt(U(LocOf(es, i)))
                    \o putInt(U(Len(es[i].p)))])
                \o (IF listed = {} THEN <<>>
                    ELSE putInt(CLST_TYPE) \o putInt(CLST_TYPE) \o putInt(CLST_INSTANCE)
                         \o (IF iv = 2 THEN putInt(U(0)) ELSE <<>>)
                         \o putInt(U(clstAt)) \o putInt(U(Len(clst)))))
        laidOut(payloads, clst) == indexed(payloads, clst, 96 + Len(payloads))
    IN  laidOut(Concat([i \in 1..n |-> es[i].p]),
                Concat([i \in 1..n |->
                    IF es[i].listed
                    THEN KeyBytes(iv, es[i].t)
                         \o putInt(U(getUncompressedSize(es[i].p, 0)))
                    ELSE <<>>]))

\* ---- payloads
Zeros16 == Zeros(16)
Plain16 == [i \in 1..16 |-> 30 + i]
Short3 == <<9, 8, 7>>
\* 16 zero bytes as qfs_compress packs them
Packed == qfs_compress(Zeros16, 15).out
\* 16 zero bytes as one literal run: decodes, and packs smaller
Loose == <<27, 0, 0, 0, 16, 251, 0, 0, 16, 227>> \o Zeros16 \o <<252>>
\* five bytes as a literal run: decodes to fewer bytes than it takes
Bloated == <<16, 0, 0, 0, 16, 251, 0, 0, 5, 224, 1, 2, 3, 4, 253, 5>>
\* a back reference before the start of the output: does not decode
Corrupt == <<12, 0, 0, 0, 16, 251, 0, 0, 16, 0, 0, 252>>
\* decodes to the empty payload
PackedEmpty == <<10, 0, 0, 0, 16, 251, 0, 0, 0, 252>>
\* not compressed, but bytes 4-5 read 10 FB
LookAlike == <<12, 0, 0, 0, 16, 251, 0, 0, 40, 1, 2, 3>>
\* 14 zero bytes as qfs_compress packs them when given room: 14 bytes
Tight == qfs_compress(Zeros(14), 14).out

E(t, p, listed) == [t |-> t, p |-> p, listed |-> listed]

\* one entry of every kind
Kinds ==
    { E(1, <<>>, FALSE), E(1, Short3, FALSE), E(1, Zeros16, FALSE),
      E(1, Plain16, FALSE), E(1, LookAlike, FALSE),
      E(1, Packed, TRUE), E(1, Loose, TRUE), E(1, Bloated, TRUE),
      E(1, Corrupt, TRUE), E(1, PackedEmpty, TRUE),
      E(1, Short3, TRUE), E(1, Plain16, TRUE), E(1, <<>>, TRUE), E(1, Packed, FALSE),
      E(1, Tight, TRUE) }

\* the kinds that are paired with each other
PairKinds ==
    { E(1, Zeros16, FALSE), E(1, Plain16, FALSE), E(1, Packed, TRUE),
      E(1, Corrupt, TRUE), E(1, Bloated, TRUE), E(1, Short3, TRUE) }

EntryLists ==
    { <<>> }
    \cup { <<k>> : k \in Kinds }
    \cup { << E(1, Zeros16, FALSE), E(2, Packed, TRUE), E(3, Plain16, FALSE) >>,
           << E(1, Loose, TRUE), E(2, Zeros16, FALSE), E(1, Corrupt, FALSE) >>,
           << E(1, Zeros16, FALSE), E(1, Plain16, FALSE), E(1, Zeros16, FALSE) >> }

\* two entries, with the same TGIR or with different ones
PairLists ==
    { <<a, [b EXCEPT !.t = t]>> : a \in PairKinds, b \in PairKinds, t \in {1, 2} }

HoleKinds == { "signed", "stale", "unsigned", "wide", "two", "outside" }

BadVersions ==
    { [GoodVersions(2) EXCEPT !.magic = <<18000, 16965>>],
      [GoodVersions(2) EXCEPT !.magic = <<18001, 16964>>],
      [GoodVersions(2) EXCEPT !.majorVersion = U(2)],
      [GoodVersions(2) EXCEPT !.majorVersion = <<1, 1>>],
      [GoodVersions(2) EXCEPT !.minorVersion = U(3)],
      [GoodVersions(2) EXCEPT !.minorVersion = <<1, 0>>],
      [GoodVersions(2) EXCEPT !.indexMajorVersion = U(6)],
      [GoodVersions(2) EXCEPT !.indexMajorVersion = <<7, 7>>],
      [GoodVersions(2) EXCEPT !.indexMinorVersion = U(3)],
      [GoodVersions(2) EXCEPT !.indexMinorVersion = <<1, 2>>] }

OtherVersions ==
    { [GoodVersions(0) EXCEPT !.minorVersion = U(0)],
      [GoodVersions(1) EXCEPT !.minorVersion = U(2)] }

Signed16 == BuildFile(2, << E(1, Zeros16, FALSE) >>, "signed", GoodVersions(2))

\* f, whose last index record is that of the directory of compressed files,
\* with the size in that record set to n
ClstSized(f, n) == [f EXCEPT ![Len(f) - 3] = n]

\* a directory of compressed files that ends inside its only record
Ragged == ClstSized(BuildFile(1, << E(1, Packed, TRUE) >>, "none", GoodVersions(1)), 10)

InputFiles ==
    { BuildFile(iv, es, "none", GoodVersions(iv)) : iv \in {1, 2}, es \in EntryLists }
    \cup { BuildFile(iv, es, "none", GoodVersions(iv)) : iv \in {1, 2}, es \in PairLists }
    \cup { BuildFile(2, es, hk, GoodVersions(2)) :
             es \in { <<>>, << E(1, Zeros16, FALSE) >>, << E(1, Packed, TRUE) >> },
             hk \in HoleKinds }
    \cup { BuildFile(2, << E(1, Zeros16, FALSE) >>, hk, v) :
             hk \in {"none", "signed"}, v \in BadVersions \cup OtherVersions }
    \cup { Slice(Signed16, 0, n) : n \in {0, 4, 95} }
    \cup { Ragged }


(***************************************************************************)
(* main(): the tool run over one package file, and run again.              *)
(***************************************************************************)
\* what an out-of-bounds read may yield
Garbage == {0, 171}
\* whether a read outside a buffer faults, and whether an allocation of
\* 64 KiB or more throws std::bad_alloc: either ends the process
Ends == BOOLEAN

\* the tool started on one of the given files, in either mode
StartOn(files) ==
    /\ IdleCodec
    /\ IdlePack
    /\ default_mode \in {"RECOMPRESS", "DECOMPRESS"}
    /\ mode = default_mode
    /\ file \in files
    /\ file0 = file
    /\ tempFile = NoFile
    /\ package = Sentinel /\ oldPackage = Sentinel /\ newPackage = Sentinel
    /\ is_valid = FALSE
    /\ pc = "start" /\ pass = 1 /\ outcome = "none"
    /\ wpc = <<>> /\ content = <<>> /\ r_lock = 0 /\ w_lock = 0
    /\ failed = {} /\ oob = FALSE

Init == StartOn(InputFiles)

loopVars == <<wpc, content, r_lock, w_lock, failed>>

\* lines 124-133 of main
AllDecompressed(pkg) == \A i \in 1..Len(pkg.entries) : ~pkg.entries[i].compressed

\* main, lines 85-139: parse the file and decide what to do with it
MainGetPackage ==
    /\ pc = "start"
    /\ \E g \in Garbage, ends \in Ends :
      \E r \in { getPackage(file, default_mode, g) } :
        LET pkg == r.package
            skip == \/ default_mode = "RECOMPRESS" /\ pkg.signature_in_package
                    \/ pkg.unpacked /\ default_mode = "DECOMPRESS" /\ AllDecompressed(pkg)
        IN  IF (r.oob \/ r.huge) /\ ends
            THEN /\ pc' = "crashed"
                 /\ oob' = r.oob
                 /\ UNCHANGED <<package, oldPackage, mode, outcome>>
            ELSE /\ package' = pkg
                 /\ oldPackage' = pkg
                 /\ oob' = r.oob
                 /\ mode' = IF skip THEN "SKIP" ELSE default_mode
                 /\ outcome' = IF ~pkg.unpacked THEN "rejected"
                               ELSE IF skip THEN "skipped" ELSE "none"
                 /\ pc' = IF ~pkg.unpacked \/ skip THEN "done" ELSE "open"
    /\ UNCHANGED <<default_mode, file, file0, tempFile, newPackage, is_valid, pass>>
    /\ UNCHANGED loopVars
    /\ UNCHANGED <<codecVars, packVars>>

\* main, lines 143-152, and putPackage, lines 423-446: create the temp file
\* (which may fail), write the header, initialise the locks
OpenTemp ==
    /\ pc = "open"
    /\ \E opened \in BOOLEAN :
        IF opened
        THEN /\ tempFile' = HeaderOut(package.header)
             /\ wpc' = [i \in 1..Len(package.entries) |-> "idle"]
             /\ content' = [i \in 1..Len(package.entries) |-> <<>>]
             /\ r_lock' = 0 /\ w_lock' = 0
             /\ pc' = "loop"
             /\ UNCHANGED outcome
        ELSE /\ outcome' = "no temp file"
             /\ pc' = "done"
             /\ UNCHANGED <<tempFile, wpc, content, r_lock, w_lock>>
    /\ UNCHANGED <<default_mode, mode, file, file0, package, oldPackage, newPackage,
                   is_valid, pass, failed, oob>>
    /\ UNCHANGED <<codecVars, packVars>>

\* loop iterations a thread is in the middle of
InFlight == { i \in DOMAIN wpc : wpc[i] \notin {"idle", "done"} }

\* line 452: a thread starts iteration i and takes r_lock
LockRead(i) ==
    /\ pc = "loop" /\ wpc[i] = "idle"
    /\ Cardinality(InFlight) < NThreads
    /\ r_lock = 0
    /\ r_lock' = i
    /\ wpc' = [wpc EXCEPT ![i] = "reading"]
    /\ UNCHANGED <<default_mode, mode, file, file0, tempFile, package, oldPackage,
                   newPackage, is_valid, pc, pass, outcome, content, w_lock, failed, oob>>
    /\ UNCHANGED <<codecVars, packVars>>

\* the payload is read and r_lock is never released
ReadUnlock_keepsLock(i) ==
    /\ pc = "loop" /\ wpc[i] = "reading"
    /\ content' = [content EXCEPT ![i] = ReadContent(file, package.entries[i])]
    /\ wpc' = [wpc EXCEPT ![i] = "read"]
    /\ UNCHANGED <<default_mode, mode, file, file0, tempFile, package, oldPackage,
                   newPackage, is_valid, pc, pass, outcome, r_lock, w_lock, failed, oob>>
    /\ UNCHANGED <<codecVars, packVars>>

\* lines 453-454: read the payload, release r_lock.  The stream of the
\* original is good here: no read of getPackage over InputFiles falls short.
ReadUnlock(i) ==
    /\ pc = "loop" /\ wpc[i] = "reading"
    /\ content' = [content EXCEPT ![i] = ReadContent(file, package.entries[i])]
    /\ r_lock' = 0
    /\ wpc' = [wpc EXCEPT ![i] = "read"]
    /\ UNCHANGED <<default_mode, mode, file, file0, tempFile, package, oldPackage,
                   newPackage, is_valid, pc, pass, outcome, w_lock, failed, oob>>
    /\ UNCHANGED <<codecVars, packVars>>

\* lines 456-467: transform the payload, set the entry's size and
\* uncompressedSize
Transform(i) ==
    /\ pc = "loop" /\ wpc[i] = "read"
    /\ \E g \in Garbage, ends \in Ends :
      \E r \in { IF mode = "RECOMPRESS"
                  THEN recompressEntry(package.entries[i], content[i], g)
                  ELSE [crash |-> FALSE] @@
                       decompressEntry(package.entries[i], content[i], g) } :
        LET outside == r.oob \/ (r.entry.compressed /\ Len(r.content) < 9)
            entry == [r.entry EXCEPT
                        !.size = U(Len(r.content)),
                        !.uncompressedSize =
                            IF r.entry.compressed
                            THEN U(getUncompressedSize(r.content, g))
                            ELSE @]
        IN  IF r.crash \/ (outside /\ ends)
            THEN /\ pc' = "crashed"
                 /\ oob' = (oob \/ outside)
                 /\ UNCHANGED <<package, content, wpc, failed>>
            ELSE /\ package' = [package EXCEPT !.entries[i] = entry]
                 /\ content' = [content EXCEPT ![i] = r.content]
                 /\ wpc' = [wpc EXCEPT ![i] = "transformed"]
                 /\ failed' = IF r.failed THEN failed \cup {i} ELSE failed
                 /\ oob' = (oob \/ outside)
                 /\ UNCHANGED pc
    /\ UNCHANGED <<default_mode, mode, file, file0, tempFile, oldPackage, newPackage,
                   is_valid, pass, outcome, r_lock, w_lock>>
    /\ UNCHANGED <<codecVars, packVars>>

\* the write section entered without waiting for w_lock
LockWrite_noLock(i) ==
    /\ pc = "loop" /\ wpc[i] = "transformed"
    /\ w_lock' = i
    /\ wpc' = [wpc EXCEPT ![i] = "writing"]
    /\ UNCHANGED <<default_mode, mode, file, file0, tempFile, package, oldPackage,
                   newPackage, is_valid, pc, pass, outcome, content, r_lock, failed, oob>>
    /\ UNCHANGED <<codecVars, packVars>>

\* line 469: take w_lock
LockWrite(i) ==
    /\ pc = "loop" /\ wpc[i] = "transformed"
    /\ w_lock = 0
    /\ w_lock' = i
    /\ wpc' = [wpc EXCEPT ![i] = "writing"]
    /\ UNCHANGED <<default_mode, mode, file, file0, tempFile, package, oldPackage,
                   newPackage, is_valid, pc, pass, outcome, content, r_lock, failed, oob>>
    /\ UNCHANGED <<codecVars, packVars>>

\* line 471: entry.location = newFile.tellp()
SampleLocation(i) ==
    /\ pc = "loop" /\ wpc[i] = "writing"
    /\ package' = [package EXCEPT !.entries[i].location = U(Len(tempFile))]
    /\ wpc' = [wpc EXCEPT ![i] = "located"]
    /\ UNCHANGED <<default_mode, mode, file, file0, tempFile, oldPackage, newPackage,
                   is_valid, pc, pass, outcome, content, r_lock, w_lock, failed, oob>>
    /\ UNCHANGED <<codecVars, packVars>>

\* lines 472-474: append the payload at the write position, release w_lock
WriteUnlock(i) ==
    /\ pc = "loop" /\ wpc[i] = "located"
    /\ tempFile' = tempFile \o content[i]
    /\ w_lock' = 0
    /\ wpc' = [wpc EXCEPT ![i] = "done"]
    /\ UNCHANGED <<default_mode, mode, file, file0, package, oldPackage, newPackage,
                   is_valid, pc, pass, outcome, content, r_lock, failed, oob>>
    /\ UNCHANGED <<codecVars, packVars>>

\* lines 477-578: the loop is over; write the directory of compressed files,
\* the index, the signature hole, and patch the header
PutTailStep ==
    /\ pc = "loop"
    /\ \A i \in DOMAIN wpc : wpc[i] = "done"
    /\ \E r \in { PutTail(tempFile, package, mode) } :
           /\ tempFile' = r.file
           /\ package' = r.package
    /\ pc' = "written"
    /\ UNCHANGED <<default_mode, mode, file, file0, oldPackage, newPackage, is_valid,
                   pass, outcome, oob>>
    /\ UNCHANGED loopVars
    /\ UNCHANGED <<codecVars, packVars>>

\* main, lines 155-157: parse the temp file and validate it
Validate ==
    /\ pc = "written"
    /\ \E g \in Garbage, ends \in Ends :
      \E r \in { getPackage(tempFile, mode, g) } :
        LET outside == r.oob \/ \E i \in 1..Len(oldPackage.entries) :
                          /\ oldPackage.entries[i].compressed
                          /\ Val(oldPackage.entries[i].size) < 9
        IN  IF (outside \/ r.huge) /\ ends
            THEN /\ pc' = "crashed"
                 /\ oob' = (oob \/ outside)
                 /\ UNCHANGED <<newPackage, is_valid>>
            ELSE /\ newPackage' = r.package
                 /\ is_valid' = validatePackage(oldPackage, r.package, file, tempFile,
                                                mode, g)
                 /\ oob' = (oob \/ outside)
                 /\ pc' = "validated"
    /\ UNCHANGED <<default_mode, mode, file, file0, tempFile, package, oldPackage,
                   pass, outcome>>
    /\ UNCHANGED loopVars
    /\ UNCHANGED <<codecVars, packVars>>

\* the output of a pass in which a stream did not decode is thrown away
Replace_abortOnFailure ==
    /\ pc = "validated"
    /\ \E renamed \in BOOLEAN :
        /\ file' = IF is_valid /\ failed = {} /\ renamed THEN tempFile ELSE file
        /\ outcome' = IF ~is_valid \/ failed # {} THEN "invalid"
                      ELSE IF renamed THEN "replaced" ELSE "not renamed"
    /\ tempFile' = NoFile
    /\ pc' = "done"
    /\ UNCHANGED <<default_mode, mode, file0, package, oldPackage, newPackage,
                   is_valid, pass, oob>>
    /\ UNCHANGED loopVars
    /\ UNCHANGED <<codecVars, packVars>>

\* the temp file is renamed over the original whatever validatePackage said
Replace_withoutValidation ==
    /\ pc = "validated"
    /\ \E renamed \in BOOLEAN :
        /\ file' = IF renamed THEN tempFile ELSE file
        /\ outcome' = IF ~is_valid THEN "invalid"
                      ELSE IF renamed THEN "replaced" ELSE "not renamed"
    /\ tempFile' = NoFile
    /\ pc' = "done"
    /\ UNCHANGED <<default_mode, mode, file0, package, oldPackage, newPackage,
                   is_valid, pass, oob>>
    /\ UNCHANGED loopVars
    /\ UNCHANGED <<codecVars, packVars>>

\* main, lines 159-178: delete the temp file, or rename it over the original
\* (which may fail)
Replace ==
    /\ pc = "validated"
    /\ \E renamed \in BOOLEAN :
        /\ file' = IF is_valid /\ renamed THEN tempFile ELSE file
        /\ outcome' = IF ~is_valid THEN "invalid"
                      ELSE IF renamed THEN "replaced" ELSE "not renamed"
    /\ tempFile' = NoFile
    /\ pc' = "done"
    /\ UNCHANGED <<default_mode, mode, file0, package, oldPackage, newPackage,
                   is_valid, pass, oob>>
    /\ UNCHANGED loopVars
    /\ UNCHANGED <<codecVars, packVars>>

\* the tool is run once more over a file it has rewritten
RunAgain ==
    /\ pc = "done" /\ outcome = "replaced" /\ pass < MaxPass
    /\ pass' = pass + 1
    /\ mode' = default_mode
    /\ file0' = file
    /\ package' = Sentinel /\ oldPackage' = Sentinel /\ newPackage' = Sentinel
    /\ is_valid' = FALSE
    /\ pc' = "start" /\ outcome' = "none"
    /\ wpc' = <<>> /\ content' = <<>> /\ r_lock' = 0 /\ w_lock' = 0
    /\ failed' = {} /\ oob' = FALSE
    /\ UNCHANGED <<default_mode, file, tempFile>>
    /\ UNCHANGED <<codecVars, packVars>>

Next ==
    \/ MainGetPackage
    \/ OpenTemp
    \/ \E i \in DOMAIN wpc : LockRead(i)
    \/ \E i \in DOMAIN wpc : ReadUnlock(i)
    \/ \E i \in DOMAIN wpc : Transform(i)
    \/ \E i \in DOMAIN wpc : LockWrite(i)
    \/ \E i \in DOMAIN wpc : SampleLocation(i)
    \/ \E i \in DOMAIN wpc : WriteUnlock(i)
    \/ PutTailStep
    \/ Validate
    \/ Replace
    \/ RunAgain

Spec == Init /\ [][Next]_vars

\* a step of some iteration of the parallel loop
LoopStep ==
    \E i \in DOMAIN wpc :
        \/ LockRead(i) \/ ReadUnlock(i) \/ Transform(i)
        \/ LockWrite(i) \/ SampleLocation(i) \/ WriteUnlock(i)

\* what LoopStep does to the positions: iteration i moves on by one when it
\* is not waiting (for a free thread and r_lock at line 452, for w_lock at
\* line 469), or its transform ends the process
Advance(i) ==
    /\ pc = "loop"
    /\ wpc[i] = "idle" => (Cardinality(InFlight) < NThreads /\ r_lock = 0)
    /\ wpc[i] = "transformed" => w_lock = 0
    /\ \/ /\ wpc[i] # "done"
          /\ wpc' = [wpc EXCEPT ![i] =
                        CASE @ = "idle" -> "reading"
                          [] @ = "reading" -> "read"
                          [] @ = "read" -> "transformed"
                          [] @ = "transformed" -> "writing"
                          [] @ = "writing" -> "located"
                          [] @ = "located" -> "done"]
          /\ pc' = pc
       \/ /\ wpc[i] = "read"
          /\ wpc' = wpc
          /\ pc' = "crashed"

Scheduled == \E i \in DOMAIN wpc : Advance(i)

\* the threads of the omp team are scheduled: while some iteration can take
\* a step, one does.  The steps that change pc or wpc while pc = "loop" are
\* those of LoopStep and the step that ends the loop.
SpecFair == Spec /\ WF_<<pc, wpc>>(Scheduled)

\* the bytes an entry stands for: its payload decoded when the entry is marked
\* compressed and the stream decodes, else the payload as stored
Payload(f, e) ==
    LET raw == Slice(f, Val(e.location), Val(e.size))
        size == IF Len(raw) >= 9 THEN raw[7] * 65536 + raw[8] * 256 + raw[9] ELSE 0
    IN  IF e.compressed /\ qfs_decompress(raw, size).success
        THEN qfs_decompress(raw, size).out
        ELSE raw

\* C3. Whenever validatePackage returns true for a file written by putPackage
\* (Recompress or Decompress mode), the new package has as many entries as
\* the original and, position by position, the decompressed payload of the
\* new entry is byte-equal to the decompressed payload of the original entry.
C3_ContentPreserved ==
    (pc = "validated" /\ is_valid) =>
        /\ Len(newPackage.entries) = Len(oldPackage.entries)
        /\ \A i \in 1..Len(oldPackage.entries) :
              Payload(tempFile, newPackage.entries[i]) = Payload(file, oldPackage.entries[i])

\* a valid rewrite in which an entry went from stored to compressed and one
\* in which an entry went from compressed to stored
C3_Witness ==
    /\ pc = "validated" /\ is_valid
    /\ \E i \in 1..Len(oldPackage.entries) :
          /\ newPackage.entries[i].compressed # oldPackage.entries[i].compressed
          /\ Len(Payload(file, oldPackage.entries[i])) = 16

\* the index records of a written file, read from its bytes
WrittenIndex(f) ==
    LET count == f[37] + 256 * f[38]
        at == f[41] + 256 * f[42]
        stride == IF f[61] = 2 THEN 24 ELSE 20
    IN  [k \in 1..count |-> Slice(f, at + stride * (k - 1), stride)]

\* the TGIRs the directory of compressed files of a written file holds, read
\* from its bytes: <<type, group, instance, resource>> as byte quadruples
WrittenClst(f) ==
    LET index == WrittenIndex(f)
        v2 == f[61] = 2
        dirs == { k \in DOMAIN index : Slice(index[k], 0, 4) = <<239, 30, 107, 232>> }
        body(k) == LET rec == index[k]
                       at == rec[Len(rec) - 7] + 256 * rec[Len(rec) - 6]
                       size == rec[Len(rec) - 3] + 256 * rec[Len(rec) - 2]
                   IN  Slice(f, at, size)
        stride == IF v2 THEN 20 ELSE 16
    IN  UNION { { << Slice(body(k), stride * j, 4), Slice(body(k), stride * j + 4, 4),
                     Slice(body(k), stride * j + 8, 4),
                     IF v2 THEN Slice(body(k), stride * j + 12, 4) ELSE <<0, 0, 0, 0>> >> :
                  j \in 0..((Len(body(k)) \div stride) - 1) } : k \in dirs }

\* C4. After putPackage the TGIRs recorded in the written directory of
\* compressed files are exactly the TGIRs of the entries whose compressed
\* flag is set after their transform, and the index holds one record for the
\* directory when at least one entry is compressed and none otherwise.
C4_ClstExact ==
    pc = "written" =>
        LET entries == { i \in 1..Len(package.entries) :
                           package.entries[i].type # CLST_TYPE }
            packed == { i \in entries : package.entries[i].compressed }
            index == WrittenIndex(tempFile)
        IN  /\ WrittenClst(tempFile) =
                  { << putInt(package.entries[i].type), putInt(package.entries[i].group),
                       putInt(package.entries[i].instance),
                       putInt(package.entries[i].resource) >> : i \in packed }
            /\ Cardinality({ k \in DOMAIN index :
                                Slice(index[k], 0, 4) = <<239, 30, 107, 232>> })
                  = IF packed = {} THEN 0 ELSE 1
            /\ Len(index) = Cardinality(entries) + (IF packed = {} THEN 0 ELSE 1)

\* a written file with a compressed entry and an entry that is not
C4_Witness ==
    /\ pc = "written"
    /\ \E i, j \in 1..Len(package.entries) :
          /\ package.entries[i].compressed
          /\ ~package.entries[j].compressed /\ package.entries[j].type # CLST_TYPE
    /\ WrittenClst(tempFile) # {}

\* the entries of the parsed original whose compressed stream does not decode
Undecodable ==
    { i \in 1..Len(oldPackage.entries) :
        /\ oldPackage.entries[i].compressed
        /\ Payload(file, oldPackage.entries[i])
              = Slice(file, Val(oldPackage.entries[i].location),
                      Val(oldPackage.entries[i].size)) }

\* C5, as stated. Rewriting a parsed archive in Decompress mode and parsing
\* the output yields no entry marked compressed and no directory of
\* compressed files, also when some entry's compressed stream cannot be decoded.
C5_NoneCompressed ==
    (pc = "validated" /\ mode = "DECOMPRESS") =>
        /\ newPackage.unpacked
        /\ \A i \in 1..Len(newPackage.entries) : ~newPackage.entries[i].compressed
        /\ newPackage.compressedEntries = {}

\* C5, amended. Rewriting a parsed archive in Decompress mode and parsing the
\* output yields as compressed exactly the entries whose TGIR is that of an
\* entry whose compressed stream could not be decoded, and the directory
\* holds exactly those TGIRs: none when every compressed stream decodes.
C5_OnlyUndecodable ==
    (pc = "validated" /\ mode = "DECOMPRESS") =>
        LET kept == { Tgir(oldPackage.entries[i]) : i \in Undecodable }
        IN  /\ newPackage.unpacked
            /\ Len(newPackage.entries) = Len(oldPackage.entries)
            /\ \A i \in 1..Len(newPackage.entries) :
                  newPackage.entries[i].compressed <=> Tgir(newPackage.entries[i]) \in kept
            /\ { Tgir(x) : x \in newPackage.compressedEntries } = kept

\* a Decompress rewrite of an archive with a stream that decodes and one that
\* does not
C5_Witness ==
    /\ pc = "validated" /\ mode = "DECOMPRESS"
    /\ Undecodable # {}
    /\ \E i \in 1..Len(oldPackage.entries) :
          oldPackage.entries[i].compressed /\ i \notin Undecodable
    /\ \E i \in 1..Len(newPackage.entries) : newPackage.entries[i].compressed

\* exactly one hole, of size 8, holding "BRG5" and then the size of the file,
\* read from the bytes of the file
SignedFile(f) ==
    LET word(at) == Slice(f, at, 4)
        holeIndex == f[53] + 256 * f[54]
        hole == f[holeIndex + 1] + 256 * f[holeIndex + 2]
    IN  /\ word(48) = <<1, 0, 0, 0>>
        /\ word(holeIndex + 4) = <<8, 0, 0, 0>>
        /\ word(hole) = <<66, 82, 71, 53>>
        /\ word(hole + 4) = <<Len(f) % 256, Len(f) \div 256, 0, 0>>

\* C6. In Recompress mode, for an archive that parses, the orchestrator skips
\* the writer (mode becomes SKIP, no temp file, the file untouched) if and
\* only if the file has exactly one hole of size 8 whose bytes 0-3 are "BRG5"
\* and whose bytes 4-7 are the size of the file; a signature with another
\* size does not skip, and the archive goes to the writer.
C6_SkipCriterion ==
    (pc # "start" /\ pc # "crashed" /\ default_mode = "RECOMPRESS" /\ oldPackage.unpacked) =>
        /\ mode = "SKIP" <=> SignedFile(file0)
        /\ mode = "SKIP" =>
              /\ pc = "done" /\ outcome = "skipped"
              /\ tempFile = NoFile /\ file = file0 /\ wpc = <<>>
        /\ mode # "SKIP" => mode = "RECOMPRESS"

\* a file with a stale signature that was rewritten
C6_Witness ==
    /\ default_mode = "RECOMPRESS" /\ pass = 1 /\ outcome = "replaced"
    /\ ~SignedFile(file0)
    /\ oldPackage.header.holeIndexEntryCount = U(1)
    /\ oldPackage.holes[1].size = U(8)
    /\ Slice(file0, Val(oldPackage.holes[1].location), 4) = <<66, 82, 71, 53>>

\* C7. Every file written by putPackage in Recompress mode ends with the
\* hole index and the signature hole; the size stored in the hole is the
\* length of the file and the hole fields of the header are (1, indexEnd,
\* 8); parsing the file sets signature_in_package; and a second Recompress
\* pass over it skips: no temp file, the file as it was.
C7_RecompressIdempotent ==
    /\ (pc \in {"written", "validated"} /\ mode = "RECOMPRESS") =>
          LET n == Len(tempFile)
              indexEnd == tempFile[41] + 256 * tempFile[42]
                          + tempFile[45] + 256 * tempFile[46]
          IN  /\ Slice(tempFile, n - 8, 8)
                    = <<66, 82, 71, 53, n % 256, n \div 256, 0, 0>>
              /\ Slice(tempFile, 48, 12)
                    = <<1, 0, 0, 0, indexEnd % 256, indexEnd \div 256, 0, 0, 8, 0, 0, 0>>
              /\ indexEnd = n - 16
              /\ Slice(tempFile, indexEnd, 8)
                    = <<(n - 8) % 256, (n - 8) \div 256, 0, 0, 8, 0, 0, 0>>
              /\ \A g \in Garbage :
                    getPackage(tempFile, "RECOMPRESS", g).package.signature_in_package
    /\ (pass > 1 /\ default_mode = "RECOMPRESS" /\ pc # "start") =>
          /\ mode = "SKIP" /\ pc = "done" /\ outcome = "skipped"
          /\ tempFile = NoFile /\ file = file0 /\ wpc = <<>>

\* the second pass over a recompressed archive with entries has skipped it
C7_Witness ==
    /\ pass = 2 /\ default_mode = "RECOMPRESS" /\ outcome = "skipped"
    /\ Len(package.entries) > 1
    /\ \E i \in 1..Len(package.entries) : package.entries[i].compressed

\* the header conditions under which a file is not a package the tool handles,
\* read from the bytes of the file
Unsupported(f) ==
    \/ Len(f) < 96
    \/ Slice(f, 0, 4) # <<68, 66, 80, 70>>
    \/ Slice(f, 4, 4) # <<1, 0, 0, 0>>
    \/ Slice(f, 8, 4) \notin { <<0, 0, 0, 0>>, <<1, 0, 0, 0>>, <<2, 0, 0, 0>> }
    \/ Slice(f, 32, 4) # <<7, 0, 0, 0>>
    \/ Slice(f, 60, 4) \notin { <<0, 0, 0, 0>>, <<1, 0, 0, 0>>, <<2, 0, 0, 0>> }

\* C10. If the file is shorter than 96 bytes, or its magic is not "DBPF", or
\* majorVersion # 1, or minorVersion is not 0, 1 or 2, or indexMajorVersion
\* # 7, or indexMinorVersion > 2, getPackage returns the sentinel (unpacked
\* false, no entries, no holes, no signature) and main goes on to the next
\* file: no temp file, no writer, the original unchanged.
C10_Rejection ==
    (pc # "start" /\ Unsupported(file0)) =>
        /\ package = Sentinel /\ ~package.unpacked
        /\ package.entries = <<>> /\ package.holes = <<>>
        /\ ~package.signature_in_package
        /\ pc = "done" /\ outcome = "rejected"
        /\ tempFile = NoFile /\ wpc = <<>> /\ file = file0 /\ oob = FALSE

\* a rejected file whose major version is 1 in its low half only
C10_Witness ==
    /\ pc = "done" /\ outcome = "rejected"
    /\ Len(file0) >= 96 /\ Slice(file0, 4, 4) = <<1, 0, 1, 0>>

\* the payload of e in f starts with the framing header of a compressed
\* stream: 9 bytes or more, 10 FB at 4-5, e.uncompressedSize at 6-8
Framed(f, e) ==
    LET framed(raw) ==
            /\ Len(raw) >= 9
            /\ raw[5] = 16 /\ raw[6] = 251
            /\ U(raw[7] * 65536 + raw[8] * 256 + raw[9]) = e.uncompressedSize
    IN  framed(Slice(f, Val(e.location), Val(e.size)))

\* C11. In every archive getPackage returns with unpacked = true, each entry
\* marked compressed has a payload of at least 9 bytes whose bytes 4-5 are
\* 10 FB and whose bytes 6-8 (big endian) are the entry's uncompressedSize.
C11_CompressedFramed ==
    oldPackage.unpacked =>
        \A i \in 1..Len(oldPackage.entries) :
            oldPackage.entries[i].compressed => Framed(file0, oldPackage.entries[i])

\* C12. In both modes the header of the file putPackage wrote has bytes 0-35
\* and 60-95 (the 32 remainder bytes at 64-95 among them) equal to those of
\* the source file; only bytes 36-59 may differ.
C12_HeaderFrame ==
    pc \in {"written", "validated"} =>
        /\ Slice(tempFile, 0, 36) = Slice(file, 0, 36)
        /\ Slice(tempFile, 60, 36) = Slice(file, 60, 36)
        /\ Slice(tempFile, 64, 32) = oldPackage.header.remainder

\* a Decompress rewrite whose index and hole fields differ from the source's
C12_Witness ==
    /\ pc = "written" /\ mode = "DECOMPRESS"
    /\ Slice(tempFile, 36, 24) # Slice(file, 36, 24)
    /\ Slice(tempFile, 64, 32) = Remainder
    /\ Slice(file, 48, 4) = <<1, 0, 0, 0>>

\* C13. Whatever the interleaving of the loop iterations, after putPackage
\* each entries[i] has (location, size) such that the bytes of the output at
\* [location, location + size) are the transformed payload of entry i; the
\* ranges of distinct entries are disjoint and together cover the file from
\* 96 to the end of the payloads; and the i-th index record holds that
\* location and size.
C13_LocationsTile ==
    pc \in {"written", "validated"} =>
        LET n == Len(wpc)
            loc(i) == Val(package.entries[i].location)
            size(i) == Val(package.entries[i].size)
            index == WrittenIndex(tempFile)
            end == IF Len(package.entries) > n
                   THEN Val(package.entries[n + 1].location)
                   ELSE tempFile[41] + 256 * tempFile[42]
        IN  /\ \A i \in 1..n :
                  /\ size(i) = Len(content[i])
                  /\ Slice(tempFile, loc(i), size(i)) = content[i]
                  /\ Slice(index[i], Len(index[i]) - 8, 8)
                        = putInt(package.entries[i].location)
                          \o putInt(package.entries[i].size)
            /\ \A i, j \in 1..n :
                  i # j => (loc(i) + size(i) <= loc(j) \/ loc(j) + size(j) <= loc(i))
            /\ UNION { loc(i)..(loc(i) + size(i) - 1) : i \in 1..n } = 96..(end - 1)

\* a later entry was written before an earlier one
C13_Witness ==
    /\ pc = "written"
    /\ \E i, j \in 1..Len(wpc) :
          /\ i < j
          /\ Val(package.entries[i].location) > Val(package.entries[j].location)
          /\ Len(content[i]) > 0 /\ Len(content[j]) > 0
          /\ content[i] # content[j]

\* the loop iterations whose transform has returned
Transformed == { i \in DOMAIN wpc : wpc[i] \notin {"idle", "reading", "read"} }

\* C14, as stated. If the decompression of an entry fails during a write
\* pass, the output is abandoned: the temp file is deleted, the original is
\* not replaced, and the tool goes on to the next file.
C14_FailureAborts ==
    (pc = "done" /\ failed # {}) =>
        /\ tempFile = NoFile
        /\ file = file0
        /\ outcome # "replaced"

\* C14, amended. A decompression that fails does not end the write pass: the
\* entry keeps its stored bytes and its compressed flag, the output is
\* written to the end and validated like any other, and the original is
\* replaced exactly when validatePackage returned true and the rename went
\* through; otherwise the temp file is deleted and the original is as it was.
C14_FailureKeepsEntry ==
    /\ \A i \in failed :
          /\ i \in Transformed
          /\ content[i] = ReadContent(file0, oldPackage.entries[i])
          /\ package.entries[i].compressed
    /\ (pc = "validated" /\ failed # {}) => tempFile # NoFile
    /\ (pc = "done" /\ failed # {}) =>
          /\ outcome \in {"invalid", "replaced", "not renamed"}
          /\ outcome = "invalid" <=> ~is_valid
          /\ outcome # "replaced" => file = file0
          /\ tempFile = NoFile

\* an archive with a stream that did not decode has replaced the original
C14_Witness ==
    /\ pc = "done" /\ failed # {}
    /\ outcome = "replaced" /\ is_valid
    /\ file # file0

\* C15. The original is replaced only by the temp file, only after
\* validatePackage returned true for it; when validation fails or the rename
\* fails the temp file is removed and the original is left as it was; either
\* way main goes on to the next file.
C15_ReplaceAfterValidate ==
    /\ [](/\ file # file0 => (pc = "done" /\ outcome = "replaced" /\ is_valid)
          /\ (pc = "done" /\ outcome \in {"invalid", "not renamed"}) =>
                (tempFile = NoFile /\ file = file0)
          /\ (pc = "done" /\ outcome = "invalid") => ~is_valid)
    /\ [][/\ file' # file =>
                (pc = "validated" /\ is_valid /\ file' = tempFile /\ outcome' = "replaced")
          /\ pc = "validated" => (pc' = "done" /\ tempFile' = NoFile)
          /\ (pc = "validated" /\ ~is_valid) => (file' = file /\ outcome' = "invalid")]_vars

\* a written archive failed validation: the temp file is gone, the original kept
C15_Witness ==
    /\ pc = "done" /\ outcome = "invalid" /\ ~is_valid
    /\ tempFile = NoFile /\ file = file0
    /\ Len(package.entries) > 0

\* C16. After putPackage, for every input, the number of records in the
\* written directory of compressed files is the number of written entries
\* (the directory aside) whose payload has 9 bytes or more and 10 FB at
\* bytes 4-5, payloads written as they were read among them.
C16_ClstCountsFramed ==
    pc = "written" =>
        LET n == Len(wpc)
            records == IF Len(package.entries) > n
                       THEN Val(package.entries[n + 1].size) \div ClstStride(package.header)
                       ELSE 0
        IN  records = Cardinality({ i \in 1..n :
                          /\ Len(content[i]) >= 9
                          /\ content[i][5] = 16 /\ content[i][6] = 251 })

C18_RepeatedKept ==
    (default_mode = "RECOMPRESS" /\ oldPackage.unpacked) =>
        /\ \A i \in 1..Len(oldPackage.entries) :
              oldPackage.entries[i].repeated <=>
                  \E j \in 1..Len(oldPackage.entries) :
                      j # i /\ Tgir(oldPackage.entries[j]) = Tgir(oldPackage.entries[i])
        /\ pc \in {"loop", "written", "validated"} =>
              \A i \in Transformed :
                  (oldPackage.entries[i].repeated /\ ~oldPackage.entries[i].compressed) =>
                      /\ content[i] = ReadContent(file, oldPackage.entries[i])
                      /\ ~package.entries[i].compressed

\* three entries share a TGIR; the first, 16 zero bytes, was written as read
C18_Witness ==
    /\ default_mode = "RECOMPRESS" /\ pc = "written"
    /\ Len(oldPackage.entries) = 3
    /\ \A i \in 1..3 : oldPackage.entries[i].repeated
    /\ content[1] = Zeros16 /\ ~package.entries[1].compressed

\* C19. validatePackage returns false when, for some compressed entry of the
\* new package, the uncompressedSize of the framing header differs from that
\* of the directory of compressed files, or the compressedSize of the
\* framing header differs from the size in the index, or compressedSize is
\* not strictly less than uncompressedSize.
C19_ValidatorRejects ==
    (pc = "validated" /\ newPackage.unpacked) =>
        LET wrong(e, c) ==
                /\ e.compressed /\ Len(c) >= 9
                /\ \/ U(getUncompressedSize(c, 0)) # e.uncompressedSize
                   \/ getInt(c, 0, 0) # e.size
                   \/ Val(getInt(c, 0, 0)) >= getUncompressedSize(c, 0)
        IN  (\E i \in 1..Len(newPackage.entries) :
                wrong(newPackage.entries[i], ReadContent(tempFile, newPackage.entries[i])))
            => ~is_valid

\* C20. No read or write through getInt, putInt or getUncompressedSize in
\* the reader, the writer, the entry transforms or the validator touches a
\* byte outside its buffer, whatever the length of the directory of
\* compressed files and of the payloads it names.
C20_NoUnguardedAccess ==
    (pc # "start") => ~oob

\* the iterations inside the seek+read section and inside the tellp+write
\* section
Reading == { i \in DOMAIN wpc : wpc[i] = "reading" }
Writing == { i \in DOMAIN wpc : wpc[i] \in {"writing", "located"} }

C22_EmptyHandled ==
    (mode = "RECOMPRESS" /\ ~oob) =>
        \A i \in DOMAIN wpc :
            (/\ wpc[i] = "read" /\ content[i] = <<>>
             /\ ~package.entries[i].compressed /\ ~package.entries[i].repeated
             /\ \A j \in DOMAIN wpc : j # i => wpc[j] # "read")
            => pc # "crashed"

(***************************************************************************)
(* The reader over headers whose fields take any 32-bit value.  A file is  *)
(* the header, one index record at 96, one hole index record after it, and *)
(* the 8 bytes of that hole.                                               *)
(***************************************************************************)
\* counts whose product with the record size passes 2^32
Counts ==
    { U(0), U(1),
      <<2730, 43691>>,      \* 0x0AAAAAAB: times 24 is 2^32 + 8
      <<3276, 52429>>,      \* 0x0CCCCCCD: times 20 is 2^32 + 4
      <<8192, 0>>,          \* 0x20000000: times 8 is 2^32
      <<8192, 1>> }         \* 0x20000001: times 8 is 2^32 + 8

\* sizes, some of which added to a location in the file pass 2^32
Sizes(stride) == { U(0), U(4), U(8), U(stride), <<65535, 65535>>, <<65535, 65440>> }

\* [location, size] of the entry the index record names
Extents ==
    { <<U(96), U(4)>>, <<U(50), <<65535, 65520>>>>, <<U(130), U(8)>>,
      <<<<65535, 65535>>, U(2)>> }

FuzzFile(iv, count, indexSize, holeCount, holeIndexLocation, holeIndexSize, extent) ==
    HeaderBytes(GoodVersions(iv) @@
                [indexEntryCount |-> count, indexLocation |-> U(96),
                 indexSize |-> indexSize, holeIndexEntryCount |-> holeCount,
                 holeIndexLocation |-> holeIndexLocation,
                 holeIndexSize |-> holeIndexSize])
    \o KeyBytes(iv, 1) \o putInt(extent[1]) \o putInt(extent[2])
    \o HoleBytes("signed", 96 + (IF iv = 2 THEN 24 ELSE 20))

FuzzFilesOf(iv, stride) ==
    { FuzzFile(iv, count, indexSize, holeCount, holeIndexLocation, holeIndexSize, extent) :
        count \in Counts \ {<<8192, 0>>, <<8192, 1>>},
        indexSize \in Sizes(stride),
        holeCount \in Counts \ {<<2730, 43691>>, <<3276, 52429>>},
        holeIndexLocation \in {U(0), U(96 + stride)},
        holeIndexSize \in Sizes(8), extent \in Extents }

FuzzFiles == FuzzFilesOf(1, 20) \cup FuzzFilesOf(2, 24)

InitReader == StartOn(FuzzFiles)

NextReader == MainGetPackage

SpecReader == InitReader /\ [][NextReader]_vars

\* C8. Every archive getPackage returns with unpacked = true has, as
\* integers that do not wrap, indexLocation + indexSize <= fileSize,
\* holeIndexLocation + holeIndexSize <= fileSize, and location + size <=
\* fileSize for each of its entries.
C8_ReaderBounds ==
    (pc # "start" /\ package.unpacked) =>
        LET h == package.header
            fileSize == U(Len(file0))
        IN  /\ WideLeq(WideAdd(h.indexLocation, h.indexSize), fileSize)
            /\ WideLeq(WideAdd(h.holeIndexLocation, h.holeIndexSize), fileSize)
            /\ \A i \in 1..Len(package.entries) :
                  WideLeq(WideAdd(package.entries[i].location, package.entries[i].size),
                          fileSize)

\* C9. Every archive getPackage returns with unpacked = true has, as
\* integers that do not wrap, indexEntryCount * stride <= indexSize (stride
\* 24 when indexMinorVersion is 2, else 20) and holeIndexEntryCount * 8 =
\* holeIndexSize; and the hole loop and the index loop of getPackage read no
\* record outside the buffer they were given.
C9_CountsFit ==
    pc # "start" =>
        /\ package.unpacked =>
              LET h == package.header
              IN  /\ WideLeq(WideMul(h.indexEntryCount,
                                  IF h.indexMinorVersion = U(2) THEN 24 ELSE 20),
                          h.indexSize)
                  /\ WideEq(WideMul(h.holeIndexEntryCount, 8), h.holeIndexSize)
        /\ ~oob

(***************************************************************************)
(* src/dbpf.h: putPackage builds the whole file in a buffer in memory and  *)
(* getPackage parses such a buffer.  An entry carries its own content.     *)
(***************************************************************************)
MaxPacked == 2      \* entries of a package handed to putPackage

\* uint getInt32le(bytes& buf, uint& pos): the value; the caller advances pos.
\* buf[pos + 3] << 24 is taken modulo 2^32.
getInt32le(buf, pos, g) ==
    << AtOr(buf, pos + 3, g) * 256 + AtOr(buf, pos + 2, g),
       AtOr(buf, pos + 1, g) * 256 + AtOr(buf, pos, g) >>

\* void putInt32le(bytes& buf, uint& pos, uint n): the four bytes written
putInt32le(n) == << ByteAtLE(n, 0), ByteAtLE(n, 1), ByteAtLE(n, 2), ByteAtLE(n, 3) >>

\* uint getInt24bg(bytes& buf, uint& pos)
getInt24bg(buf, pos, g) ==
    AtOr(buf, pos, g) * 65536 + AtOr(buf, pos + 1, g) * 256 + AtOr(buf, pos + 2, g)

\* Entry(bytes& buf, uint typeId, uint groupId, uint instanceId, uint resourceId)
MemEntry(buf, typeId, groupId, instanceId, resourceId) ==
    [content |-> buf, type |-> typeId, group |-> groupId, instance |-> instanceId,
     resource |-> resourceId, location |-> U(0), compressed |-> FALSE,
     repeated |-> FALSE]

\* Package(uint indexVersionNumber, vector<Entry>& entriesVector)
MemPackage(indexVersionNumber, entriesVector) ==
    [indexVersion |-> indexVersionNumber, entries |-> entriesVector]

\* buf[pos .. pos + Len(chunk) - 1] = chunk; a write past the end is dropped
WriteAt(buf, pos, chunk) ==
    [k \in 1..Len(buf) |->
        IF k > pos /\ k <= pos + Len(chunk) THEN chunk[k - pos] ELSE buf[k]]

\* putPackage, lines 256-262
hasCompressedEntries(p) == \E i \in DOMAIN p.entries : p.entries[i].compressed

\* putPackage, lines 277-286: one record for every entry of the package
MemClstRecord(p, e, g) ==
    putInt32le(e.type) \o putInt32le(e.group) \o putInt32le(e.instance)
    \o (IF p.indexVersion = U(2) THEN putInt32le(e.resource) ELSE <<>>)
    \o putInt32le(U(getInt24bg(e.content, 6, g)))

\* putPackage, lines 264-290: the package with the directory pushed
WithClst(p, g) ==
    IF hasCompressedEntries(p)
    THEN [p EXCEPT !.entries =
            Append(@, MemEntry(Concat([i \in DOMAIN p.entries |->
                                          MemClstRecord(p, p.entries[i], g)]),
                               CLST_TYPE, CLST_TYPE, CLST_INSTANCE, U(0)))]
    ELSE p

\* putPackage, line 286: content[6..8] is read whatever the content's length
ClstReadsOutside(p) ==
    /\ hasCompressedEntries(p)
    /\ \E i \in DOMAIN p.entries : Len(p.entries[i].content) < 9

RECURSIVE ContentSize(_)
\* putPackage, lines 296-298
ContentSize(entries) ==
    IF entries = <<>> THEN 0 ELSE Len(Head(entries).content) + ContentSize(Tail(entries))

\* putPackage, lines 293-305
FileLength(p) ==
    96 + ContentSize(p.entries)
       + Len(p.entries) * 4 * (IF p.indexVersion = U(2) THEN 6 ELSE 5)

\* putPackage, lines 312-335: the header, the index fields still zero
MemHeader(p) ==
    <<68, 66, 80, 70>> \o putInt32le(U(1)) \o putInt32le(U(1)) \o Zeros(20)
    \o putInt32le(U(7)) \o Zeros(24) \o putInt32le(p.indexVersion)

RECURSIVE Located(_, _, _)
\* putPackage, lines 338-342: entry.location = pos; pos += entry.content.size()
Located(entries, i, pos) ==
    IF i > Len(entries) THEN entries
    ELSE Located([entries EXCEPT ![i].location = U(pos)], i + 1,
                 pos + Len(entries[i].content))

\* putPackage, lines 348-357
MemIndexRecord(p, e) ==
    putInt32le(e.type) \o putInt32le(e.group) \o putInt32le(e.instance)
    \o (IF p.indexVersion = U(2) THEN putInt32le(e.resource) ELSE <<>>)
    \o putInt32le(e.location) \o putInt32le(U(Len(e.content)))

\* bytes putPackage(Package& package): the buffer, the package as the call
\* leaves it, and whether a buffer was indexed outside its bounds
putPackageBuffer(p, g) ==
    LET Build(q, es) ==
            LET payloads == Concat([i \in DOMAIN es |-> es[i].content])
                index == Concat([i \in DOMAIN es |-> MemIndexRecord(q, es[i])])
                indexStart == 96 + Len(payloads)
                patch == putInt32le(U(Len(es))) \o putInt32le(U(indexStart))
                         \o putInt32le(U(Len(index)))
                b0 == Zeros(FileLength(q))
                b1 == WriteAt(b0, 0, MemHeader(q))
                b2 == WriteAt(b1, 96, payloads)
                b3 == WriteAt(b2, indexStart, index)
            IN  [package |-> [q EXCEPT !.entries = es],
                 buffer |-> WriteAt(b3, 36, patch),
                 oob |-> \/ ClstReadsOutside(p)
                         \/ indexStart + Len(index) > FileLength(q)]
        Place(q) == Build(q, Located(q.entries, 1, 96))
    IN  Place(WithClst(p, g))

\* bytes(buffer.begin() + location, buffer.begin() + location + size)
MemSlice(buf, from, n, g) == [k \in 1..n |-> AtOr(buf, from + k - 1, g)]

\* getPackage, lines 184-194: the i-th index record (i from 0)
MemIndexEntry(buf, indexVersion, indexLocation, i, g) ==
    LET stride == IF indexVersion = U(2) THEN 24 ELSE 20
        at == indexLocation + i * stride
    IN  [type |-> getInt32le(buf, at, g),
         group |-> getInt32le(buf, at + 4, g),
         instance |-> getInt32le(buf, at + 8, g),
         resource |-> IF indexVersion = U(2) THEN getInt32le(buf, at + 12, g) ELSE U(0),
         location |-> Val(getInt32le(buf, at + stride - 8, g)),
         size |-> Val(getInt32le(buf, at + stride - 4, g)),
         last |-> at + stride]

RECURSIVE MemReadIndex(_, _, _, _, _, _, _)
\* getPackage, lines 183-205: the entries in index order, the directory apart
MemReadIndex(buf, indexVersion, indexLocation, count, i, g, acc) ==
    IF i >= count THEN acc
    ELSE LET r == MemIndexEntry(buf, indexVersion, indexLocation, i, g)
             c == MemSlice(buf, r.location, r.size, g)
             out == acc.oob \/ r.last > Len(buf) \/ r.location + r.size > Len(buf)
         IN  MemReadIndex(buf, indexVersion, indexLocation, count, i + 1, g,
                 IF r.type = CLST_TYPE
                 THEN [acc EXCEPT !.clstContent = c, !.hasClst = TRUE, !.oob = out]
                 ELSE [acc EXCEPT !.entries = Append(@, MemEntry(c, r.type, r.group,
                                                           r.instance, r.resource)),
                                  !.oob = out])

\* getPackage, lines 211-224: the TGIRs the directory names
CompressedEntries(clstContent, indexVersion, g) ==
    LET stride == IF indexVersion = U(2) THEN 20 ELSE 16
        records == (Len(clstContent) + stride - 1) \div stride
    IN  { << getInt32le(clstContent, k * stride, g),
             getInt32le(clstContent, k * stride + 4, g),
             getInt32le(clstContent, k * stride + 8, g),
             IF indexVersion = U(2) THEN getInt32le(clstContent, k * stride + 12, g)
                                    ELSE U(0) >> : k \in 0..(records - 1) }

\* getPackage, lines 227-233: content[4] and, when it is 0x10, content[5]
MemMarkCompressed(entries, set, g) ==
    [i \in DOMAIN entries |->
        IF /\ Tgir(entries[i]) \in set
           /\ AtOr(entries[i].content, 4, g) = 16
           /\ AtOr(entries[i].content, 5, g) = 251
        THEN [entries[i] EXCEPT !.compressed = TRUE]
        ELSE entries[i]]

\* getPackage, line 229: the content is indexed whatever its length
MarkReadsOutside(entries, set, g) ==
    \E i \in DOMAIN entries :
        /\ Tgir(entries[i]) \in set
        /\ \/ Len(entries[i].content) < 5
           \/ AtOr(entries[i].content, 4, g) = 16 /\ Len(entries[i].content) < 6

\* Package getPackage(bytes& buffer)
getPackageBuffer(buf, g) ==
    LET indexVersion == getInt32le(buf, 60, g)
        Finish(r) ==
            LET set == IF r.hasClst
                       THEN CompressedEntries(r.clstContent, indexVersion, g) ELSE {}
                stride == IF indexVersion = U(2) THEN 20 ELSE 16
            IN  [package |-> MemPackage(indexVersion,
                     MarkRepeated(MemMarkCompressed(r.entries, set, g), 1, {})),
                 oob |-> \/ r.oob \/ Len(buf) < 64
                         \/ Len(r.clstContent) % stride # 0
                         \/ MarkReadsOutside(r.entries, set, g)]
    IN  Finish(MemReadIndex(buf, indexVersion, Val(getInt32le(buf, 40, g)),
                            Val(getInt32le(buf, 36, g)), 0, g,
                            [entries |-> <<>>, clstContent |-> <<>>,
                             hasClst |-> FALSE, oob |-> FALSE]))

\* payloads given to putPackage, with the compressed flag they carry: the
\* flag is set only on payloads that carry the codec's header
PackKinds ==
    { <<c, FALSE>> : c \in { <<>>, Short3, Zeros16, LookAlike } }
    \cup { <<c, TRUE>> : c \in { Packed, Corrupt } }

\* the i-th entry of a package: no entry has the directory's type
PackEntry(iv, i, kind) ==
    [MemEntry(kind[1], TypeOf(i), GroupOf(i), InstanceOf(i), ResourceOf(iv, i))
        EXCEPT !.compressed = kind[2]]

Packages ==
    { MemPackage(U(iv), [i \in DOMAIN ks |-> PackEntry(iv, i, ks[i])]) :
        iv \in {1, 2}, ks \in UNION { [1..n -> PackKinds] : n \in 0..MaxPacked } }

InitPack ==
    /\ IdleMain /\ IdleCodec
    /\ given \in Packages
    /\ memPackage = given
    /\ memBuffer = <<>> /\ memResult = NoMemPackage
    /\ mpc = "start" /\ moob = FALSE

\* bytes buffer = putPackage(package)
Pack ==
    /\ mpc = "start"
    /\ \E g \in Garbage, ends \in Ends :
         \E r \in { putPackageBuffer(memPackage, g) } :
            IF r.oob /\ ends
            THEN /\ mpc' = "crashed"
                 /\ moob' = TRUE
                 /\ UNCHANGED <<memPackage, memBuffer>>
            ELSE /\ memPackage' = r.package
                 /\ memBuffer' = r.buffer
                 /\ moob' = r.oob
                 /\ mpc' = "packed"
    /\ UNCHANGED <<given, memResult>>
    /\ UNCHANGED <<mainVars, codecVars>>

\* Package result = getPackage(buffer)
Unpack ==
    /\ mpc = "packed"
    /\ \E g \in Garbage, ends \in Ends :
         \E r \in { getPackageBuffer(memBuffer, g) } :
            IF r.oob /\ ends
            THEN /\ mpc' = "crashed"
                 /\ moob' = TRUE
                 /\ UNCHANGED memResult
            ELSE /\ memResult' = r.package
                 /\ moob' = (moob \/ r.oob)
                 /\ mpc' = "unpacked"
    /\ UNCHANGED <<given, memPackage, memBuffer>>
    /\ UNCHANGED <<mainVars, codecVars>>

NextPack == Pack \/ Unpack

SpecPack == InitPack /\ [][NextPack]_vars

\* the entries of q are those of p, in order, with the same TGIR, content
\* and compressed flag
SameEntries(p, q) ==
    /\ Len(q.entries) = Len(p.entries)
    /\ \A i \in DOMAIN p.entries :
          /\ Tgir(q.entries[i]) = Tgir(p.entries[i])
          /\ q.entries[i].content = p.entries[i].content
          /\ q.entries[i].compressed = p.entries[i].compressed

\* C23: packing a package none of whose entries has type 0xE86B1EEF into a
\* buffer and unpacking the buffer gives back the same indexVersion and the
\* same entries in the same order, with identical TGIR, content and
\* compressed flag, and no buffer is indexed outside its bounds on the way.
C23_RoundTrip ==
    /\ ~moob
    /\ mpc # "crashed"
    /\ mpc = "unpacked" =>
          /\ memResult.indexVersion = given.indexVersion
          /\ SameEntries(given, memResult)

\* the same, for packages in which no entry is compressed
C23_PlainRoundTrip ==
    ~hasCompressedEntries(given) =>
        /\ ~moob
        /\ mpc # "crashed"
        /\ mpc = "unpacked" =>
              /\ memResult.indexVersion = given.indexVersion
              /\ SameEntries(given, memResult)

\* an entry that was not compressed comes back marked compressed, with every
\* access in bounds
C23_Misreported ==
    /\ mpc = "unpacked" /\ ~moob
    /\ \E i \in DOMAIN given.entries :
          /\ i \in DOMAIN memResult.entries
          /\ ~given.entries[i].compressed
          /\ memResult.entries[i].compressed

=============================================================================
